---- MODULE Spec2Model ----
(***************************************************************************)
(* Meal-plan selection engine: the filter, the day planner (randomized     *)
(* local search), the macro-rebalance ("tighten") pass and the handlers    *)
(* that call them.  Two revisions of the engine live in the repository:    *)
(*   - mealplanner/services/planner.py  (impl "planner")                   *)
(*   - app.py                           (impl "app")                       *)
(* Both are modelled; every definition names the revision it follows.      *)
(*                                                                         *)
(* Text is a sequence of one-character strings, so that str.lower, split,  *)
(* strip and the substring test are computed, not assumed.                 *)
(***************************************************************************)
EXTENDS Integers, Sequences, FiniteSets, TLC

(***************************************************************************)
(* Text helpers (Python str methods used by filter_meals)                  *)
(***************************************************************************)

\* str.lower() on the alphabet the model's catalogs and exclusions use
Lower(ch) ==
    CASE ch = "A" -> "a"
      [] ch = "B" -> "b"
      [] ch = "C" -> "c"
      [] ch = "D" -> "d"
      [] ch = "E" -> "e"
      [] ch = "F" -> "f"
      [] ch = "G" -> "g"
      [] ch = "H" -> "h"
      [] ch = "I" -> "i"
      [] ch = "J" -> "j"
      [] ch = "K" -> "k"
      [] ch = "L" -> "l"
      [] ch = "M" -> "m"
      [] ch = "N" -> "n"
      [] ch = "O" -> "o"
      [] ch = "P" -> "p"
      [] ch = "Q" -> "q"
      [] ch = "R" -> "r"
      [] ch = "S" -> "s"
      [] ch = "T" -> "t"
      [] ch = "U" -> "u"
      [] ch = "V" -> "v"
      [] ch = "W" -> "w"
      [] ch = "X" -> "x"
      [] ch = "Y" -> "y"
      [] ch = "Z" -> "z"
      [] OTHER -> ch

RECURSIVE LowerText(_)
LowerText(s) ==
    IF s = <<>> THEN <<>> ELSE <<Lower(Head(s))>> \o LowerText(Tail(s))

IsSpace(ch) == ch = " "

\* str.strip(): drop leading and trailing whitespace
RECURSIVE LStrip(_)
LStrip(s) ==
    IF s = <<>> THEN <<>>
    ELSE IF IsSpace(Head(s)) THEN LStrip(Tail(s)) ELSE s

RECURSIVE RStrip(_)
RStrip(s) ==
    IF s = <<>> THEN <<>>
    ELSE IF IsSpace(s[Len(s)]) THEN RStrip(SubSeq(s, 1, Len(s) - 1)) ELSE s

Strip(s) == RStrip(LStrip(s))

\* str.split(','): the pieces between commas, empty pieces included
RECURSIVE SplitAcc(_, _, _)
SplitAcc(s, cur, acc) ==
    IF s = <<>> THEN Append(acc, cur)
    ELSE IF Head(s) = "," THEN SplitAcc(Tail(s), <<>>, Append(acc, cur))
    ELSE SplitAcc(Tail(s), Append(cur, Head(s)), acc)

SplitComma(s) == SplitAcc(s, <<>>, <<>>)

\* " ".join(seq of texts)
RECURSIVE JoinSpace(_)
JoinSpace(ts) ==
    IF ts = <<>> THEN <<>>
    ELSE IF Len(ts) = 1 THEN ts[1]
    ELSE ts[1] \o <<" ">> \o JoinSpace(Tail(ts))

\* x in text (Python substring test; the empty text is in every text)
Contains(text, x) ==
    \E i \in 1..(Len(text) + 1) :
        /\ i + Len(x) - 1 <= Len(text)
        /\ SubSeq(text, i, i + Len(x) - 1) = x

Range(s) == { s[i] : i \in 1..Len(s) }

(***************************************************************************)
(* Filter                                                                  *)
(***************************************************************************)

\* excludes = set([x.strip().lower() for x in excl.split(',') if x.strip()])
ParseExcludes(excl) ==
    LET pieces == SplitComma(excl)
    IN  { LowerText(Strip(pieces[i])) :
            i \in { j \in 1..Len(pieces) : Strip(pieces[j]) # <<>> } }

\* text = (name + " " + " ".join(ingredients)).lower()
MealText(m) == LowerText(m.name \o <<" ">> \o JoinSpace(m.ingredients))

\* the three `continue` tests on the tags of one meal
DietRejectsMutant(m, prefs) ==
    LET t == Range(m.tags)
    IN  \/ prefs.vegetarian /\ ~("vegetarian" \in t)
        \/ prefs.vegan /\ ~("vegan" \in t)
        \/ prefs.dairy_free /\ ~("dairy_free" \in t) /\ ~("vegan" \in t)

DietRejectsGluten(m, prefs) ==
    LET t == Range(m.tags)
    IN  \/ prefs.vegetarian /\ ~(("vegetarian" \in t) \/ ("vegan" \in t))
        \/ prefs.vegan /\ ~("vegan" \in t)
        \/ prefs.dairy_free /\ ~("dairy_free" \in t) /\ ~("vegan" \in t)
        \/ prefs.gluten_free /\ ~("gluten_free" \in t)

DietRejects(m, prefs) ==
    LET t == Range(m.tags)
    IN  \/ prefs.vegetarian /\ ~(("vegetarian" \in t) \/ ("vegan" \in t))
        \/ prefs.vegan /\ ~("vegan" \in t)
        \/ prefs.dairy_free /\ ~("dairy_free" \in t) /\ ~("vegan" \in t)

\* any(x in text for x in excludes)
ExcludeRejects(m, excludes) ==
    \E x \in excludes : Contains(MealText(m), x)

\* the loop of filter_meals: append every meal no test rejects, in order
RECURSIVE FilterLoop(_, _, _)
FilterLoop(meals, prefs, excludes) ==
    IF meals = <<>> THEN <<>>
    ELSE LET m == Head(meals)
             rest == FilterLoop(Tail(meals), prefs, excludes)
         IN  IF DietRejects(m, prefs) THEN rest
             ELSE IF ExcludeRejects(m, excludes) THEN rest
             ELSE <<m>> \o rest

\* planner.py filter_meals(meals, prefs): `return selected or meals`
PlannerFallbackMutant(selected, meals) == selected

PlannerFallback(selected, meals) ==
    IF selected # <<>> THEN selected ELSE meals

planner_filter_meals(meals, prefs) ==
    PlannerFallback(FilterLoop(meals, prefs, ParseExcludes(prefs.excludes)), meals)

\* app.py filter_meals(prefs) over the module-level MEALS: `return selected`
app_filter_meals(MEALS, prefs) ==
    FilterLoop(MEALS, prefs, ParseExcludes(prefs.excludes))

\* app.py generate / build_plan_from_params: pool = filter_meals(prefs) or MEALS[:]
AppPoolUnfiltered(MEALS, prefs) == MEALS

AppPool(MEALS, prefs) ==
    LET selected == app_filter_meals(MEALS, prefs)
    IN  IF selected # <<>> THEN selected ELSE MEALS

(***************************************************************************)
(* Catalogs of the model.  The repository's MEALS table (app.py) and       *)
(* meals.json are data; the model runs the same code over small catalogs   *)
(* with the same record layout.  Oats/Wrap/Beef are the one-meal-per-slot  *)
(* scenario (300 + 500 + 600 = 1400 kcal).                                 *)
(***************************************************************************)
Oats ==
    [name |-> <<"O", "a", "t", "s">>, meal_type |-> "breakfast", K |-> 300, P |-> 20, C |-> 30, F |-> 8,
     tags |-> <<"breakfast", "vegetarian">>,
     ingredients |-> <<<<"o", "a", "t", "s">>, <<"M", "i", "l", "k">>>>]

Wrap ==
    [name |-> <<"W", "r", "a", "p">>, meal_type |-> "lunch", K |-> 500, P |-> 40, C |-> 50, F |-> 15,
     tags |-> <<"lunch", "high_protein">>,
     ingredients |-> <<<<"e", "g", "g">>, <<"w", "r", "a", "p">>>>]

Beef ==
    [name |-> <<"B", "e", "e", "f">>, meal_type |-> "dinner", K |-> 600, P |-> 45, C |-> 55, F |-> 20,
     tags |-> <<"dinner", "gluten_free", "dairy_free">>,
     ingredients |-> <<<<"b", "e", "e", "f">>>>]

Egg ==
    [name |-> <<"E", "g", "g">>, meal_type |-> "breakfast", K |-> 200, P |-> 20, C |-> 2, F |-> 12,
     tags |-> <<"vegetarian", "gluten_free">>,
     ingredients |-> <<<<"E", "g", "g">>>>]

Tofu ==
    [name |-> <<"T", "o", "f", "u">>, meal_type |-> "dinner", K |-> 400, P |-> 40, C |-> 20, F |-> 16,
     tags |-> <<"vegan", "gluten_free">>,
     ingredients |-> <<<<"t", "o", "f", "u">>, <<"o", "i", "l">>>>]

Soup ==
    [name |-> <<"S", "o", "u", "p">>, meal_type |-> "lunch", K |-> 300, P |-> 15, C |-> 45, F |-> 5,
     tags |-> <<"vegan", "dairy_free">>,
     ingredients |-> <<<<"p", "e", "a">>, <<"m", "i", "n", "t">>>>]

Nut ==
    [name |-> <<"N", "u", "t">>, meal_type |-> "snack", K |-> 200, P |-> 6, C |-> 8, F |-> 16,
     tags |-> <<"vegan">>,
     ingredients |-> <<<<"n", "u", "t">>>>]

Yog ==
    [name |-> <<"Y", "o", "g">>, meal_type |-> "snack", K |-> 100, P |-> 10, C |-> 10, F |-> 2,
     tags |-> <<"vegetarian", "quick">>,
     ingredients |-> <<<<"y", "o", "g">>>>]

\* the same dish as Oats under another name: equal K, P, C, F
Porridge ==
    [name |-> <<"P", "o", "r", "r", "i", "d", "g", "e">>, meal_type |-> "breakfast", K |-> 300, P |-> 20, C |-> 30, F |-> 8,
     tags |-> <<"breakfast", "vegetarian">>,
     ingredients |-> <<<<"o", "a", "t", "s">>, <<"w", "a", "t", "e", "r">>>>]

\* meals near the 40/30/30 split of a 1400 kcal day (140 g, 105 g, 47 g), and
\* one carbohydrate-heavy meal per type
Skyr ==
    [name |-> <<"S", "k", "y", "r">>, meal_type |-> "breakfast", K |-> 350, P |-> 27, C |-> 26, F |-> 12,
     tags |-> <<"breakfast", "vegetarian">>,
     ingredients |-> <<<<"s", "k", "y", "r">>>>]

Omelette ==
    [name |-> <<"O", "m", "e", "l", "e", "t", "t", "e">>, meal_type |-> "breakfast", K |-> 350, P |-> 35, C |-> 26, F |-> 22,
     tags |-> <<"breakfast", "vegetarian">>,
     ingredients |-> <<<<"e", "g", "g">>>>]

Bowl ==
    [name |-> <<"B", "o", "w", "l">>, meal_type |-> "lunch", K |-> 500, P |-> 50, C |-> 38, F |-> 16,
     tags |-> <<"lunch", "high_protein">>,
     ingredients |-> <<<<"r", "i", "c", "e">>, <<"h", "e", "n">>>>]

Pasta ==
    [name |-> <<"P", "a", "s", "t", "a">>, meal_type |-> "lunch", K |-> 500, P |-> 15, C |-> 80, F |-> 12,
     tags |-> <<"lunch", "vegan">>,
     ingredients |-> <<<<"p", "a", "s", "t", "a">>>>]

Fish ==
    [name |-> <<"F", "i", "s", "h">>, meal_type |-> "dinner", K |-> 550, P |-> 55, C |-> 41, F |-> 19,
     tags |-> <<"dinner", "gluten_free">>,
     ingredients |-> <<<<"c", "o", "d">>>>]

Pizza ==
    [name |-> <<"P", "i", "z", "z", "a">>, meal_type |-> "dinner", K |-> 700, P |-> 25, C |-> 90, F |-> 25,
     tags |-> <<"dinner", "vegetarian">>,
     ingredients |-> <<<<"d", "o", "u", "g", "h">>>>]

CatalogScenario == <<Oats, Wrap, Beef>>
CatalogMixed == <<Egg, Oats, Soup, Wrap, Tofu, Beef, Nut, Yog>>
CatalogNoBreakfast == <<Soup, Tofu, Nut>>
CatalogOneEach == <<Oats, Wrap, Beef, Yog>>
CatalogPair == <<Egg, Oats, Wrap, Beef, Yog>>
CatalogSnacks == <<Oats, Wrap, Beef, Nut, Yog>>
CatalogTie == <<Oats, Porridge, Soup, Wrap, Beef>>
CatalogBalanced == <<Skyr, Omelette, Bowl, Pasta, Fish, Pizza>>

\* exclusion strings a request can carry (form field `excludes`)
ExNone == <<>>
ExEgg == <<"e", "g", "g">>
ExList == <<" ", "E", "G", "G", ",", ",", " ", "o", "a", "t", " ">>
ExCommas == <<",">>
ExAcross == <<"s", " ", "o">>
ExVowel == <<"o", ",", "e", ",", "u">>
ExcludeTexts == {ExNone, ExEgg, ExList, ExCommas, ExAcross, ExVowel}

(***************************************************************************)
(* Arithmetic helpers.  Python floats are modelled by exact rationals:     *)
(* a product with a decimal literal is the product with its fraction, and  *)
(* int() of a positive value is the floor.                                 *)
(***************************************************************************)
Abs(x) == IF x < 0 THEN -x ELSE x
Max(a, b) == IF a >= b THEN a ELSE b
Min(a, b) == IF a <= b THEN a ELSE b

RECURSIVE GCD(_, _)
GCD(a, b) == IF b = 0 THEN a ELSE GCD(b, a % b)

LCM(a, b) == (a \div GCD(a, b)) * b

\* int(x * num/100) for x >= 0
IntPercent(x, num) == (x * num) \div 100

\* a / b cut to an integer instead of rounded
RoundDivTruncating(a, b) == a \div b

\* round(a / b) for a >= 0, b > 0: Python 3 rounds halves to the even integer
RoundDiv(a, b) ==
    LET q == a \div b
        r == a % b
    IN  IF 2 * r < b THEN q
        ELSE IF 2 * r > b THEN q + 1
        ELSE IF q % 2 = 0 THEN q ELSE q + 1

\* grams_from_kcal(target_kcal) with the default 0.40 / 0.30 / 0.30 ratios
grams_from_kcal(target_kcal) ==
    [given |-> TRUE,
     p |-> RoundDiv(target_kcal * 40, 400),
     c |-> RoundDiv(target_kcal * 30, 400),
     f |-> RoundDiv(target_kcal * 30, 900)]

\* macro_targets=None
NoMacros == [given |-> FALSE, p |-> 0, c |-> 0, f |-> 0]

(***************************************************************************)
(* Sums over a selection                                                   *)
(***************************************************************************)
RECURSIVE SumK(_)
SumK(picks) == IF picks = <<>> THEN 0 ELSE Head(picks).K + SumK(Tail(picks))

RECURSIVE SumP(_)
SumP(picks) == IF picks = <<>> THEN 0 ELSE Head(picks).P + SumP(Tail(picks))

RECURSIVE SumC(_)
SumC(picks) == IF picks = <<>> THEN 0 ELSE Head(picks).C + SumC(Tail(picks))

RECURSIVE SumF(_)
SumF(picks) == IF picks = <<>> THEN 0 ELSE Head(picks).F + SumF(Tail(picks))

\* app.py _totals(picks)
Totals(picks) == [k |-> SumK(picks), p |-> SumP(picks), c |-> SumC(picks), f |-> SumF(picks)]

(***************************************************************************)
(* planner.py: buckets, slot sequence, score                               *)
(***************************************************************************)
MEAL_TYPES == <<"breakfast", "lunch", "dinner", "snack">>

\* by_type[t] = [m for m in meals_db if m["meal_type"] == t]
OfType(meals_db, t) == SelectSeq(meals_db, LAMBDA m : m.meal_type = t)

\* by_type.get(mt) or meals_db   (by_type has the four MEAL_TYPES as keys)
PlannerBucketMutant(meals_db, mt) ==
    IF mt \in Range(MEAL_TYPES) THEN OfType(meals_db, mt) ELSE <<>>

PlannerBucketGlobal(meals_db, mt) == meals_db

PlannerBucket(meals_db, mt) ==
    IF mt \in Range(MEAL_TYPES) /\ OfType(meals_db, mt) # <<>>
    THEN OfType(meals_db, mt)
    ELSE meals_db

\* seq = ["dinner"] if n==1 else (["lunch","dinner"] if n==2 else (... if n==3 else 4 slots))
planner_seq(meals_per_day) ==
    IF meals_per_day = 1 THEN <<"dinner">>
    ELSE IF meals_per_day = 2 THEN <<"lunch", "dinner">>
    ELSE IF meals_per_day = 3 THEN <<"breakfast", "lunch", "dinner">>
    ELSE <<"breakfast", "lunch", "dinner", "snack">>

\* the orders random.shuffle(seq) can leave seq in
ShuffleOrders(s) ==
    { [i \in 1..Len(s) |-> s[f[i]]] :
        f \in { g \in [1..Len(s) -> 1..Len(s)] :
                  \A i, j \in 1..Len(s) : i # j => g[i] # g[j] } }

\* _score(picks, kcal_target, p_t, c_t, f_t), times 2 (the weights are
\* 1.0, 2.0, 1.5, 1.5, so twice the score is an integer)
planner_score2(picks, kcal_target, mt) ==
    2 * Abs(SumK(picks) - kcal_target) + 4 * Abs(SumP(picks) - mt.p)
      + 3 * Abs(SumC(picks) - mt.c) + 3 * Abs(SumF(picks) - mt.f)

\* best = _score(...) if macro_targets else abs(sum K - target), times 2
planner_best2(picks, kcal_target, mt) ==
    IF mt.given THEN planner_score2(picks, kcal_target, mt)
    ELSE 2 * Abs(SumK(picks) - kcal_target)

(***************************************************************************)
(* app.py: protein density order, slot sequence, score                     *)
(***************************************************************************)
\* pd(a) > pd(b), pd(m) = m["P"] / max(1.0, m["K"])
PdGreater(a, b) == a.P * Max(1, b.K) > b.P * Max(1, a.K)

\* sorted(xs, key=pd, reverse=True): descending, equal keys keep their order
RECURSIVE InsertByPd(_, _)
InsertByPd(sorted, x) ==
    IF sorted = <<>> THEN <<x>>
    ELSE IF PdGreater(x, Head(sorted)) THEN <<x>> \o sorted
    ELSE <<Head(sorted)>> \o InsertByPd(Tail(sorted), x)

RECURSIVE SortByPd(_)
SortByPd(xs) ==
    IF xs = <<>> THEN <<>>
    ELSE InsertByPd(SortByPd(SubSeq(xs, 1, Len(xs) - 1)), xs[Len(xs)])

\* sorted_by_type.get(mt) or sorted_global   (by_type.setdefault adds a key
\* for every meal_type that occurs, so an absent key is an empty bucket)
AppBucketGlobal(meals_db, mt) == SortByPd(meals_db)

AppBucket(meals_db, mt) ==
    IF OfType(meals_db, mt) # <<>> THEN SortByPd(OfType(meals_db, mt))
    ELSE SortByPd(meals_db)

\* seq = ["breakfast","lunch","dinner"] + ["snack"] * (n - 3) | ["lunch","dinner"] | ["dinner"]
RECURSIVE Snacks(_)
Snacks(n) == IF n <= 0 THEN <<>> ELSE <<"snack">> \o Snacks(n - 1)

app_seq(meals_per_day) ==
    IF meals_per_day >= 3
    THEN <<"breakfast", "lunch", "dinner">> \o Snacks(meals_per_day - 3)
    ELSE IF meals_per_day = 2 THEN <<"lunch", "dinner">>
    ELSE <<"dinner">>

\* cutoff = max(3, len(bucket) // 2) if len(bucket) > 3 else len(bucket)
SeedCutoff(n) == IF n > 3 THEN Max(3, n \div 2) ELSE n

\* top_span = max(5, len(bucket) // 2) if len(bucket) > 5 else len(bucket)
TopSpan(n) == IF n > 5 THEN Max(5, n \div 2) ELSE n

\* _score_plan compares sums of fractions; the model scales every score of
\* one call by the common denominator of its terms, so that scores are
\* integers and `new_score < best_score` is decided exactly.
PdDen(m) == Max(1, m.K) \div GCD(m.P, Max(1, m.K))

RECURSIVE PdLcm(_)
PdLcm(meals_db) ==
    IF meals_db = <<>> THEN 1 ELSE LCM(PdDen(Head(meals_db)), PdLcm(Tail(meals_db)))

ScoreDen(meals_db, n, kcal_target, mt) ==
    LCM(LCM(LCM(LCM(Max(1, kcal_target), 4 * Max(1, mt.p)), Max(1, mt.c)),
            5 * Max(1, mt.f)),
        Max(1, n) * PdLcm(meals_db))

\* sum(m["P"] / max(1, m["K"]) for m in picks) / len(picks), times den
RECURSIVE PdSum(_, _)
PdSum(picks, unit) ==
    IF picks = <<>> THEN 0
    ELSE LET m == Head(picks)
         IN  (m.P \div GCD(m.P, Max(1, m.K))) * (unit \div PdDen(m))
               + PdSum(Tail(picks), unit)

\* _score_plan(picks, kcal_target, p_target, c_target, f_target), times den
app_score(picks, kcal_target, mt, den) ==
    LET t == Totals(picks)
        KT == Max(1, kcal_target)
        PT == Max(1, mt.p)
        CT == Max(1, mt.c)
        FT == Max(1, mt.f)
        kcal_err == 30 * Abs(t.k - kcal_target) * (den \div KT)
        p_under == 120 * Max(0, mt.p - t.p) * (den \div PT)
        p_over == 15 * Max(0, t.p - mt.p) * (den \div (4 * PT))
        c_over == 80 * Max(0, t.c - mt.c) * (den \div CT)
        c_under == 10 * Max(0, mt.c - t.c) * (den \div CT)
        f_err == 3 * Abs(t.f - mt.f) * (den \div (5 * FT))
        avg_pd == IF picks = <<>> THEN 0 ELSE PdSum(picks, den \div Len(picks))
        density == 40 * Max(0, (den \div 10) - avg_pd)
    IN  kcal_err + p_under + p_over + c_over + c_under + f_err + density

(***************************************************************************)
(* aggregate_grocery (planner.py) and aggregate_grocery_list (app.py)      *)
(***************************************************************************)
\* counts[item] = counts.get(item, 0) + 1
TallyItemOnce(counts, item) ==
    IF item \in DOMAIN counts THEN counts ELSE counts @@ (item :> 1)

TallyItem(counts, item) ==
    IF item \in DOMAIN counts THEN [counts EXCEPT ![item] = @ + 1]
    ELSE counts @@ (item :> 1)

\* for item in meal.get("ingredients", [])
RECURSIVE TallyMeal(_, _)
TallyMeal(counts, ingredients) ==
    IF ingredients = <<>> THEN counts
    ELSE TallyMeal(TallyItem(counts, Head(ingredients)), Tail(ingredients))

\* for meal in day
RECURSIVE TallyDay(_, _)
TallyDay(counts, day) ==
    IF day = <<>> THEN counts
    ELSE TallyDay(TallyMeal(counts, Head(day).ingredients), Tail(day))

\* for day in plan
RECURSIVE TallyPlan(_, _)
TallyPlan(counts, days_) ==
    IF days_ = <<>> THEN counts
    ELSE TallyPlan(TallyDay(counts, Head(days_)), Tail(days_))

\* planner.py aggregate_grocery(plan); the empty dict is the empty function
aggregate_grocery(plan_) == TallyPlan(<<>>, plan_)

\* app.py aggregate_grocery_list(plan)
aggregate_grocery_list(plan_) == TallyPlan(<<>>, plan_)

(***************************************************************************)
(* app.py: MACRO_LEVERS, the fixed adjustment items of the tighten pass    *)
(***************************************************************************)
LeverP ==
    [name |-> <<"A", "d", "j", ":", " ", "W", "h", "e", "y", " ", "i", "n", " ", "W", "a", "t", "e", "r">>,
     meal_type |-> "snack", K |-> 110, P |-> 24, C |-> 3, F |-> 1,
     tags |-> <<"adjustment", "high_protein", "quick">>,
     ingredients |-> <<<<"1", " ", "s", "c", "o", "o", "p", " ", "w", "h", "e", "y">>, <<"w", "a", "t", "e", "r">>>>]

LeverC ==
    [name |-> <<"A", "d", "j", ":", " ", "R", "i", "c", "e", " ", "C", "a", "k", "e", "s", " ", "(", "2", ")">>,
     meal_type |-> "snack", K |-> 140, P |-> 2, C |-> 32, F |-> 0,
     tags |-> <<"adjustment", "quick", "low_fat">>,
     ingredients |-> <<<<"2", " ", "p", "l", "a", "i", "n", " ", "r", "i", "c", "e", " ", "c", "a", "k", "e", "s">>>>]

LeverF ==
    [name |-> <<"A", "d", "j", ":", " ", "O", "l", "i", "v", "e", " ", "O", "i", "l", " ", "(", "1", " ", "t", "b", "s", "p", ")">>,
     meal_type |-> "snack", K |-> 120, P |-> 0, C |-> 0, F |-> 14,
     tags |-> <<"adjustment", "quick", "fat_boost", "gluten_free", "dairy_free", "vegan">>,
     ingredients |-> <<<<"1", " ", "t", "b", "s", "p", " ", "e", "x", "t", "r", "a", "-", "v", "i", "r", "g", "i", "n", " ", "o", "l", "i", "v", "e", " ", "o", "i", "l">>>>]

MACRO_LEVERS(key) ==
    CASE key = "P" -> LeverP
      [] key = "C" -> LeverC
      [] key = "F" -> LeverF

\* the dict as an object of the process: key -> record
LeverTable == [key \in {"P", "C", "F"} |-> MACRO_LEVERS(key)]

\* picks[:] : a new list object holding the same records
SliceCopyAliased(xs) == [items |-> xs, alias |-> TRUE]

SliceCopy(xs) == [items |-> xs, alias |-> FALSE]

\* what `lever = dict(store[key]); lever["tags"] = lever.get("tags", []) +
\* ["adjustment"]` leaves in the store: the write goes to the copy
TagLeverInPlace(store, key) == [store EXCEPT ![key].tags = Append(@, "adjustment")]

TagLever(store, key) == store

(***************************************************************************)
(* Filter requests.  A request carries the catalog and the preferences;    *)
(* each filter entry point is applied to it, and the result is kept per    *)
(* setting of the gluten_free flag, so that two requests that differ in    *)
(* that flag alone can be compared.                                        *)
(***************************************************************************)
VARIABLES
    catalog,        \* the meal catalog of the request (MEALS / meals.json)
    prefs,          \* the request's preferences
    resPlanner,     \* planner.py filter_meals results, per gluten_free setting
    resApp,         \* app.py filter_meals results, per gluten_free setting
    resPool,        \* app.py generate's pool, per gluten_free setting
    caller,         \* "direct": pick_day_plan called as a function; "web": app.py
                    \* generate; "offline": app.py main --offline; "blueprint":
                    \* routes.py generate
    impl,           \* "planner" (planner.py) or "app" (app.py)
    form,           \* the submitted form fields (web)
    pc,             \* position in the handler / in pick_day_plan / in macro_rebalance_day
    target_kcal, macro_targets, meals_per_day, meals_db,   \* pick_day_plan's arguments
    seq, picks, total_k, attempts, best,                   \* pick_day_plan's locals
    accepted,       \* history: a mutation was accepted in this call
    replaced,       \* history: the last-mile replacement changed the selection
    work, steps,    \* macro_rebalance_day's copy of picks and its loop counter
    work_alias,     \* macro_rebalance_day's list is the caller's list object
    lever_store,    \* the contents of the MACRO_LEVERS dict of the process
    days, plan, day_totals,                                \* generate's locals
    grocery,        \* the aggregated grocery list of the finished plan
    stored_from,    \* history: per stored day, the position it was stored from
    raised,         \* an exception left the planning functions
    _RESULTS,       \* app.py: the process-wide token -> plan map
    _DATA_CACHE,    \* routes.py: the blueprint's token -> plan map
    handler,        \* the generate requests in flight, one record per thread
    fetched,        \* what the last pdf request read from the map
    kcal_in,        \* grams_from_kcal's argument
    grams_out,      \* grams_from_kcal's result, per implementation
    score_in,       \* the scoring functions' arguments: a selection and the targets
    score_out       \* per implementation, the score's rise per unit of deviation

fvars == <<catalog, prefs, resPlanner, resApp, resPool>>

reqvars == <<caller, impl, form>>
callvars == <<target_kcal, macro_targets, meals_per_day, meals_db>>
searchvars == <<seq, picks, total_k, attempts, best, accepted, replaced>>
tightvars == <<work, steps, work_alias, lever_store>>
storevars == <<days, plan, day_totals, grocery, stored_from>>
pvars == <<reqvars, pc, callvars, searchvars, tightvars, storevars, raised>>
cachevars == <<_RESULTS, _DATA_CACHE, handler, fetched>>
macrovars == <<kcal_in, grams_out>>
scorevars == <<score_in, score_out>>
sidevars == <<cachevars, macrovars, scorevars>>

vars == <<fvars, pvars, sidevars>>

NoForm == [tdee |-> 0, days |-> 0, meals_per_day |-> 0]

\* the planning side at rest (the filter requests below do not touch it)
PlanIdle ==
    /\ caller = "none" /\ impl = "none" /\ form = NoForm /\ pc = "idle"
    /\ target_kcal = 0 /\ macro_targets = NoMacros /\ meals_per_day = 0
    /\ meals_db = <<>>
    /\ seq = <<>> /\ picks = <<>> /\ total_k = 0 /\ attempts = 0 /\ best = 0
    /\ accepted = FALSE /\ replaced = FALSE
    /\ work = <<>> /\ steps = 0 /\ work_alias = FALSE /\ lever_store = LeverTable
    /\ days = 0 /\ plan = <<>> /\ day_totals = <<>>
    /\ grocery = <<>> /\ stored_from = <<>>
    /\ raised = FALSE

NoFetch == [status |-> 0]

\* the token -> plan maps of a process that has served no request
CacheIdle ==
    /\ _RESULTS = <<>> /\ _DATA_CACHE = <<>>
    /\ handler = <<>> /\ fetched = NoFetch

NoGrams == [i \in {"macros", "app"} |-> NoMacros]

MacrosIdle == kcal_in = 0 /\ grams_out = NoGrams

NoSelection == [kcal_target |-> 0, macro_targets |-> NoMacros, picks |-> <<>>]

NoPenalty == [done |-> FALSE, k |-> 0, p |-> 0, c |-> 0, f |-> 0]

ScoreIdle ==
    /\ score_in = NoSelection
    /\ score_out = [i \in {"planner", "app"} |-> NoPenalty]

SideIdle == CacheIdle /\ MacrosIdle /\ ScoreIdle

FilterCatalogs == {CatalogScenario, CatalogMixed, CatalogNoBreakfast}

PrefsSet ==
    [vegetarian : BOOLEAN, vegan : BOOLEAN, dairy_free : BOOLEAN,
     gluten_free : BOOLEAN, excludes : ExcludeTexts]

NotRun == [done |-> FALSE, out |-> <<>>]
Ran(out) == [done |-> TRUE, out |-> out]

FilterInit ==
    /\ catalog \in FilterCatalogs
    /\ prefs \in PrefsSet
    /\ resPlanner = [g \in BOOLEAN |-> NotRun]
    /\ resApp = [g \in BOOLEAN |-> NotRun]
    /\ resPool = [g \in BOOLEAN |-> NotRun]
    /\ PlanIdle
    /\ SideIdle

\* planner.py: pool = filter_meals(meals, prefs)
PlannerFilterMeals ==
    /\ resPlanner' = [resPlanner EXCEPT ![prefs.gluten_free] =
                          Ran(planner_filter_meals(catalog, prefs))]
    /\ UNCHANGED <<catalog, prefs, resApp, resPool, pvars, sidevars>>

\* app.py: filter_meals(prefs)
AppFilterMeals ==
    /\ resApp' = [resApp EXCEPT ![prefs.gluten_free] =
                      Ran(app_filter_meals(catalog, prefs))]
    /\ UNCHANGED <<catalog, prefs, resPlanner, resPool, pvars, sidevars>>

\* app.py generate: pool = filter_meals(prefs) or MEALS[:]
AppGeneratePool ==
    /\ resPool' = [resPool EXCEPT ![prefs.gluten_free] = Ran(AppPool(catalog, prefs))]
    /\ UNCHANGED <<catalog, prefs, resPlanner, resApp, pvars, sidevars>>

\* the same request submitted again with the gluten-free box toggled
ToggleGlutenFree ==
    /\ prefs' = [prefs EXCEPT !.gluten_free = ~prefs.gluten_free]
    /\ UNCHANGED <<catalog, resPlanner, resApp, resPool, pvars, sidevars>>

FilterNext ==
    \/ PlannerFilterMeals
    \/ AppFilterMeals
    \/ AppGeneratePool
    \/ ToggleGlutenFree

SpecFilter == FilterInit /\ [][FilterNext]_vars

(***************************************************************************)
(* The inclusion rule of the filter, stated on sets                        *)
(***************************************************************************)

\* the maximal comma-free segments of the exclusion string
CommaFree(s, i, j) == \A k \in i..j : s[k] # ","

Segments(s) ==
    { SubSeq(s, i, j) : <<i, j>> \in
        { ij \in (1..(Len(s) + 1)) \X (0..Len(s)) :
            /\ ij[2] >= ij[1] - 1
            /\ CommaFree(s, ij[1], ij[2])
            /\ (ij[1] = 1 \/ s[ij[1] - 1] = ",")
            /\ (ij[2] = Len(s) \/ s[ij[2] + 1] = ",") } }

ExclusionTerms(excl) ==
    { LowerText(Strip(seg)) : seg \in Segments(excl) } \ { <<>> }

HasTag(m, tag) == \E i \in 1..Len(m.tags) : m.tags[i] = tag

Qualifies(m, p) ==
    /\ p.vegan => HasTag(m, "vegan")
    /\ p.vegetarian => (HasTag(m, "vegetarian") \/ HasTag(m, "vegan"))
    /\ p.dairy_free => (HasTag(m, "dairy_free") \/ HasTag(m, "vegan"))
    /\ \A t \in ExclusionTerms(p.excludes) : ~Contains(MealText(m), t)

QualifyingMeals(p) == SelectSeq(catalog, LAMBDA m : Qualifies(m, p))

PrefsAt(g) == [prefs EXCEPT !.gluten_free = g]

\* C1: when at least one meal qualifies, every filter entry point returns
\* exactly the catalog's meals that satisfy the inclusion rule, in catalog
\* order (so a subset of the catalog, fixed by catalog and preferences alone).
C1_FilterExact ==
    \A g \in BOOLEAN :
        LET q == QualifyingMeals(PrefsAt(g))
        IN  q # <<>> =>
              /\ resPlanner[g].done =>
                    /\ resPlanner[g].out = q
                    /\ Range(resPlanner[g].out) \subseteq Range(catalog)
              /\ resApp[g].done =>
                    /\ resApp[g].out = q
                    /\ Range(resApp[g].out) \subseteq Range(catalog)
              /\ resPool[g].done => resPool[g].out = q

\* a request with a dietary flag and exclusions that removes some meals, not all
C1_Witness ==
    \E g \in BOOLEAN :
        /\ resPlanner[g].done /\ resApp[g].done
        /\ prefs.vegetarian /\ ParseExcludes(prefs.excludes) # {}
        /\ resPlanner[g].out # <<>>
        /\ Len(resPlanner[g].out) < Len(catalog)

\* C2 as stated: no filter entry point ever returns an empty collection.
C2_FilterNeverEmpty ==
    \A g \in BOOLEAN :
        /\ resPlanner[g].done => resPlanner[g].out # <<>>
        /\ resApp[g].done => resApp[g].out # <<>>

\* C2 amended: planner.py's filter_meals and the pool app.py's callers
\* compute are never empty and are the whole catalog when no meal
\* qualifies; app.py's filter_meals itself returns the empty list then.
C2_FallbackInvariant ==
    \A g \in BOOLEAN :
        LET none == QualifyingMeals(PrefsAt(g)) = <<>>
        IN  /\ resPlanner[g].done =>
                  /\ resPlanner[g].out # <<>>
                  /\ none => resPlanner[g].out = catalog
            /\ resPool[g].done =>
                  /\ resPool[g].out # <<>>
                  /\ none => resPool[g].out = catalog
            /\ (resApp[g].done /\ none) => resApp[g].out = <<>>

\* a request no meal of the catalog satisfies, filtered by every entry point
C2_Witness ==
    \E g \in BOOLEAN :
        /\ resPlanner[g].done /\ resPool[g].done /\ resApp[g].done
        /\ QualifyingMeals(PrefsAt(g)) = <<>>
        /\ resPlanner[g].out = catalog

\* C10: two requests that differ only in the gluten_free flag get the same
\* filter result from every entry point.
C10_GlutenFreeAdvisory ==
    /\ (resPlanner[TRUE].done /\ resPlanner[FALSE].done)
           => resPlanner[TRUE].out = resPlanner[FALSE].out
    /\ (resApp[TRUE].done /\ resApp[FALSE].done)
           => resApp[TRUE].out = resApp[FALSE].out
    /\ (resPool[TRUE].done /\ resPool[FALSE].done)
           => resPool[TRUE].out = resPool[FALSE].out

\* both requests were filtered, and the result keeps a meal without the
\* gluten_free tag although the flag was set
C10_Witness ==
    /\ resPlanner[TRUE].done /\ resPlanner[FALSE].done
    /\ resApp[TRUE].done /\ resApp[FALSE].done
    /\ resPool[TRUE].done /\ resPool[FALSE].done
    /\ \E i \in 1..Len(resPlanner[TRUE].out) :
           ~HasTag(resPlanner[TRUE].out[i], "gluten_free")
    /\ Len(resPlanner[TRUE].out) < Len(catalog)

(***************************************************************************)
(* Planning requests                                                       *)
(***************************************************************************)
MaxMeals == 5
MaxDays == 2

PLANNER_ATTEMPTS == 150
APP_ATTEMPTS == 350
MAX_ADJUSTMENTS == 4

NoPrefs ==
    [vegetarian |-> FALSE, vegan |-> FALSE, dairy_free |-> FALSE,
     gluten_free |-> FALSE, excludes |-> ExNone]

\* macro targets a caller can pass: the 40/30/30 grams of 1400 and of
\* 1800 kcal, and a protein-heavy triple
Macros1400 == grams_from_kcal(1400)
Macros1800 == grams_from_kcal(1800)
MacrosProtein == [given |-> TRUE, p |-> 200, c |-> 100, f |-> 40]

\* pick_day_plan called as a function
DirectCalls ==
    LET Call(i, db, t, mt, n) ==
            [caller |-> "direct", impl |-> i, catalog |-> db, prefs |-> NoPrefs,
             form |-> NoForm, target_kcal |-> t, macro_targets |-> mt,
             meals_per_day |-> n]
    IN  { Call(i, CatalogScenario, 1400, NoMacros, n) :
            i \in {"planner", "app"}, n \in 1..3 }
        \cup
        { Call(i, CatalogOneEach, 1400, NoMacros, n) :
            i \in {"planner", "app"}, n \in 4..MaxMeals }
        \cup
        { Call(i, db, 1400, Macros1400, n) :
            i \in {"planner", "app"}, db \in {CatalogNoBreakfast, <<>>}, n \in {1, 3} }
        \cup
        { Call("planner", CatalogPair, 1400, mt, 3) : mt \in {NoMacros, Macros1400} }
        \cup
        { Call("app", CatalogMixed, c[1], c[2], 3) :
            c \in { <<1400, NoMacros>>, <<1800, Macros1800>>, <<1400, MacrosProtein>> } }
        \cup
        { Call("app", CatalogSnacks, 1800, Macros1800, 4) }

\* app.py generate: the form of a request
WebRequests ==
    LET Form(db, pf, d) ==
            [caller |-> "web", impl |-> "app", catalog |-> db, prefs |-> pf,
             form |-> [tdee |-> 1867, days |-> d, meals_per_day |-> 3],
             target_kcal |-> 0, macro_targets |-> NoMacros, meals_per_day |-> 0]
    IN  { Form(CatalogScenario, pf, d) :
            pf \in { NoPrefs, [NoPrefs EXCEPT !.vegan = TRUE, !.excludes = ExEgg] },
            d \in 0..MaxDays }
        \cup
        { Form(CatalogScenario, NoPrefs, 9) }
        \cup
        { Form(CatalogMixed, NoPrefs, 1),
          Form(CatalogMixed, [NoPrefs EXCEPT !.vegetarian = TRUE], 2) }
        \cup
        { Form(CatalogMixed, [NoPrefs EXCEPT !.dairy_free = TRUE, !.excludes = ExEgg], 1) }

\* app.py main --offline (--tdee, --days, --meals) and routes.py generate
\* (form field tdee; a days field, if sent, is not read)
OfflineRequests ==
    { [caller |-> "offline", impl |-> "app", catalog |-> CatalogPair, prefs |-> NoPrefs,
       form |-> [tdee |-> 1867, days |-> d, meals_per_day |-> 4],
       target_kcal |-> 0, macro_targets |-> NoMacros, meals_per_day |-> 0] :
        d \in {0, MaxDays} }

BlueprintRequests ==
    { [caller |-> "blueprint", impl |-> "planner", catalog |-> CatalogScenario, prefs |-> NoPrefs,
       form |-> [tdee |-> 1867, days |-> d, meals_per_day |-> 3],
       target_kcal |-> 0, macro_targets |-> NoMacros, meals_per_day |-> 0] :
        d \in {5} }

Requests == DirectCalls \cup WebRequests \cup OfflineRequests \cup BlueprintRequests

\* pick_day_plan called on a catalog that holds two breakfasts of equal score
SearchCalls ==
    { [caller |-> "direct", impl |-> i, catalog |-> CatalogTie, prefs |-> NoPrefs,
       form |-> NoForm, target_kcal |-> 1800, macro_targets |-> mt,
       meals_per_day |-> 3] :
        i \in {"planner", "app"}, mt \in {NoMacros, Macros1800} }

\* pick_day_plan called on a catalog that holds selections inside the
\* convergence condition of both implementations
ConvergeCalls ==
    { [caller |-> "direct", impl |-> i, catalog |-> CatalogBalanced, prefs |-> NoPrefs,
       form |-> NoForm, target_kcal |-> 1400, macro_targets |-> mt,
       meals_per_day |-> 3] :
        i \in {"planner", "app"}, mt \in {NoMacros, Macros1400} }

\* the state at the arrival of request r
InitFor(r) ==
    /\ catalog = r.catalog
    /\ prefs = r.prefs
    /\ resPlanner = [g \in BOOLEAN |-> NotRun]
    /\ resApp = [g \in BOOLEAN |-> NotRun]
    /\ resPool = [g \in BOOLEAN |-> NotRun]
    /\ caller = r.caller /\ impl = r.impl /\ form = r.form
    /\ pc = IF r.caller = "direct" THEN "call" ELSE "request"
    /\ target_kcal = r.target_kcal
    /\ macro_targets = r.macro_targets
    /\ meals_per_day = r.meals_per_day
    /\ meals_db = IF r.caller = "direct" THEN r.catalog ELSE <<>>
    /\ seq = <<>> /\ picks = <<>> /\ total_k = 0 /\ attempts = 0 /\ best = 0
    /\ accepted = FALSE /\ replaced = FALSE
    /\ work = <<>> /\ steps = 0 /\ work_alias = FALSE /\ lever_store = LeverTable
    /\ days = IF r.caller = "direct" THEN 1 ELSE 0
    /\ plan = <<>> /\ day_totals = <<>>
    /\ grocery = <<>> /\ stored_from = <<>>
    /\ raised = FALSE
    /\ SideIdle

Init == \E r \in Requests : InitFor(r)

\* an exception propagates out of the planning functions
Raise ==
    /\ pc' = "raised"
    /\ raised' = TRUE
    /\ UNCHANGED <<fvars, sidevars, reqvars, callvars, searchvars, tightvars, storevars>>

(***************************************************************************)
(* app.py generate, up to the day loop                                     *)
(***************************************************************************)
ClampNoCeiling(lo, hi, x) == Max(lo, x)

\* max(lo, min(hi, x))
Clamp(lo, hi, x) == Max(lo, Min(hi, x))

WebGenerate ==
    /\ pc = "request" /\ caller = "web"
    /\ days' = Clamp(1, 7, form.days)
    /\ meals_per_day' = Clamp(2, 5, form.meals_per_day)
    /\ target_kcal' = RoundDiv(form.tdee * 75, 100)
    /\ macro_targets' = grams_from_kcal(target_kcal')
    /\ meals_db' = AppPool(catalog, prefs)
    /\ plan' = <<>> /\ day_totals' = <<>>
    /\ pc' = "call"
    /\ UNCHANGED <<fvars, sidevars, reqvars, searchvars, tightvars, grocery, stored_from, raised>>

\* app.py main --offline: the clamps of the call, then build_plan_from_params
\* up to its day loop
OfflineBuild ==
    /\ pc = "request" /\ caller = "offline"
    /\ days' = Clamp(1, 7, form.days)
    /\ meals_per_day' = Clamp(2, 5, form.meals_per_day)
    /\ target_kcal' = RoundDiv(form.tdee * 75, 100)
    /\ macro_targets' = grams_from_kcal(target_kcal')
    /\ meals_db' = AppPool(catalog, prefs)
    /\ plan' = <<>> /\ day_totals' = <<>>
    /\ pc' = "call"
    /\ UNCHANGED <<fvars, sidevars, reqvars, searchvars, tightvars, grocery, stored_from, raised>>

\* routes.py generate up to its day loop: days = 2, meals_per_day = 3,
\* pool = filter_meals(meals, {})
BlueprintGenerate ==
    /\ pc = "request" /\ caller = "blueprint"
    /\ days' = 2
    /\ meals_per_day' = 3
    /\ target_kcal' = RoundDiv(form.tdee * 75, 100)
    /\ macro_targets' = grams_from_kcal(target_kcal')
    /\ meals_db' = planner_filter_meals(catalog, NoPrefs)
    /\ plan' = <<>> /\ day_totals' = <<>>
    /\ pc' = "call"
    /\ UNCHANGED <<fvars, sidevars, reqvars, searchvars, tightvars, grocery, stored_from, raised>>

(***************************************************************************)
(* planner.py pick_day_plan                                                *)
(***************************************************************************)
PlannerStart ==
    /\ pc = "call" /\ impl = "planner"
    /\ seq' \in ShuffleOrders(planner_seq(meals_per_day))
    /\ picks' = <<>> /\ total_k' = 0 /\ attempts' = 0 /\ best' = 0
    /\ accepted' = FALSE /\ replaced' = FALSE
    /\ pc' = "seed"
    /\ UNCHANGED <<fvars, sidevars, reqvars, callvars, tightvars, storevars, raised>>

\* picks = [random.choice(by_type.get(mt) or meals_db) for mt in seq], one slot
PlannerSeed ==
    /\ pc = "seed" /\ impl = "planner" /\ Len(picks) < Len(seq)
    /\ LET bucket == PlannerBucket(meals_db, seq[Len(picks) + 1])
       IN  IF bucket = <<>> THEN Raise
           ELSE /\ \E j \in 1..Len(bucket) : picks' = Append(picks, bucket[j])
                /\ UNCHANGED <<fvars, sidevars, reqvars, pc, callvars, seq, total_k, attempts,
                               best, accepted, replaced, tightvars, storevars, raised>>

PlannerBeginSearch ==
    /\ pc = "seed" /\ impl = "planner" /\ Len(picks) = Len(seq)
    /\ attempts' = PLANNER_ATTEMPTS
    /\ best' = planner_best2(picks, target_kcal, macro_targets)
    /\ pc' = "search"
    /\ UNCHANGED <<fvars, sidevars, reqvars, callvars, seq, picks, total_k, accepted, replaced,
                   tightvars, storevars, raised>>

\* attempts -= 1, the first statement of every iteration
AttemptsAfterMutant(n, take) == IF take THEN n - 1 ELSE n

AttemptsAfter(n, take) == n - 1

\* if sc < best (macro targets) / if the kcal gap shrinks (none): take `new`
PlannerAcceptsMutant(new, cur, bst, kt, mt) ==
    IF mt.given THEN planner_score2(new, kt, mt) <= bst
    ELSE Abs(SumK(new) - kt) <= Abs(SumK(cur) - kt)

PlannerAccepts(new, cur, bst, kt, mt) ==
    IF mt.given THEN planner_score2(new, kt, mt) < bst
    ELSE Abs(SumK(new) - kt) < Abs(SumK(cur) - kt)

\* low <= sum K <= up and (not macro_targets or best < 20)
PlannerConverged(cur, bst, kt, mt) ==
    /\ IntPercent(kt, 95) <= SumK(cur)
    /\ SumK(cur) <= IntPercent(kt, 105)
    /\ (~mt.given \/ bst < 40)

\* one iteration of `while attempts > 0`
PlannerAttempt ==
    /\ pc = "search" /\ impl = "planner" /\ attempts > 0
    /\ IF picks = <<>> THEN Raise
       ELSE \E i \in 1..Len(picks) :
              LET bucket == PlannerBucket(meals_db, picks[i].meal_type)
              IN  \E j \in 1..Len(bucket) :
                    LET new == [picks EXCEPT ![i] = bucket[j]]
                        take == PlannerAccepts(new, picks, best, target_kcal, macro_targets)
                        picks2 == IF take THEN new ELSE picks
                        best2 == IF take /\ macro_targets.given
                                 THEN planner_score2(new, target_kcal, macro_targets)
                                 ELSE best
                    IN  /\ attempts' = AttemptsAfter(attempts, take)
                        /\ picks' = picks2
                        /\ best' = best2
                        /\ accepted' = (accepted \/ take)
                        /\ pc' = IF PlannerConverged(picks2, best2, target_kcal, macro_targets)
                                 THEN "finish" ELSE "search"
                        /\ UNCHANGED <<fvars, sidevars, reqvars, callvars, seq, total_k, replaced,
                                       tightvars, storevars, raised>>

\* the loop condition fails: attempts == 0
SearchExhausted ==
    /\ pc = "search" /\ attempts = 0
    /\ pc' = "finish"
    /\ UNCHANGED <<fvars, sidevars, reqvars, callvars, searchvars, tightvars, storevars, raised>>

\* return picks, sum(m["K"] for m in picks)
PlannerReturn ==
    /\ pc = "finish" /\ impl = "planner"
    /\ total_k' = SumK(picks)
    /\ pc' = "returned"
    /\ UNCHANGED <<fvars, sidevars, reqvars, callvars, seq, picks, attempts, best, accepted,
                   replaced, tightvars, storevars, raised>>

(***************************************************************************)
(* app.py pick_day_plan                                                    *)
(***************************************************************************)
\* if not meals_db: return [], 0   -- else build the buckets and seq
AppStart ==
    /\ pc = "call" /\ impl = "app"
    /\ picks' = <<>> /\ total_k' = 0 /\ attempts' = 0 /\ best' = 0
    /\ accepted' = FALSE /\ replaced' = FALSE
    /\ IF meals_db = <<>>
       THEN seq' = <<>> /\ pc' = "returned"
       ELSE seq' = app_seq(meals_per_day) /\ pc' = "seed"
    /\ UNCHANGED <<fvars, sidevars, reqvars, callvars, tightvars, storevars, raised>>

\* candidate_pool = bucket[:cutoff] if cutoff else bucket
SeedPool(bucket) ==
    IF SeedCutoff(Len(bucket)) # 0 THEN SubSeq(bucket, 1, SeedCutoff(Len(bucket)))
    ELSE bucket

\* one iteration of `for mt in seq`
AppSeed ==
    /\ pc = "seed" /\ impl = "app" /\ Len(picks) < Len(seq)
    /\ LET bucket == AppBucket(meals_db, seq[Len(picks) + 1])
           candidate_pool == SeedPool(bucket)
           draw == IF candidate_pool # <<>> THEN candidate_pool ELSE SortByPd(meals_db)
       IN  IF draw = <<>> THEN Raise
           ELSE /\ \E j \in 1..Len(draw) :
                      /\ picks' = Append(picks, draw[j])
                      /\ total_k' = total_k + draw[j].K
                /\ UNCHANGED <<fvars, sidevars, reqvars, pc, callvars, seq, attempts, best,
                               accepted, replaced, tightvars, storevars, raised>>

AppBeginSearch ==
    /\ pc = "seed" /\ impl = "app" /\ Len(picks) = Len(seq)
    /\ attempts' = APP_ATTEMPTS
    /\ best' = app_score(picks, target_kcal, macro_targets,
                         ScoreDen(meals_db, Len(seq), target_kcal, macro_targets))
    /\ pc' = "search"
    /\ UNCHANGED <<fvars, sidevars, reqvars, callvars, seq, picks, total_k, accepted, replaced,
                   tightvars, storevars, raised>>

\* if new_score < best_score
AppAcceptsMutant(new_score, best_score) == new_score <= best_score

AppAccepts(new_score, best_score) == new_score < best_score

\* kcal_ok and p_ok and c_ok and f_ok
AppConverged(cur, kt, mt) ==
    /\ IntPercent(kt, 95) <= SumK(cur) /\ SumK(cur) <= IntPercent(kt, 105)
    /\ 50 * Abs(SumP(cur) - mt.p) <= Max(300, 3 * mt.p)
    /\ 50 * Abs(SumC(cur) - mt.c) <= Max(400, 4 * mt.c)
    /\ 50 * Abs(SumF(cur) - mt.f) <= Max(300, 3 * mt.f)

\* total_k = sum(m["K"] for m in picks) after an accepted swap
TotalAfterSwapMutant(old_total, cur) == old_total

TotalAfterSwap(old_total, cur) == SumK(cur)

\* one iteration of `while attempts > 0`
AppAttempt ==
    /\ pc = "search" /\ impl = "app" /\ attempts > 0
    /\ IF picks = <<>> THEN Raise
       ELSE LET den == ScoreDen(meals_db, Len(seq), target_kcal, macro_targets)
            IN
            \E idx \in 1..Len(picks) :
              LET bucket == AppBucket(meals_db, picks[idx].meal_type)
                  top_span == TopSpan(Len(bucket))
                  draw == IF top_span # 0 THEN SubSeq(bucket, 1, top_span)
                          ELSE SortByPd(meals_db)
              IN  \E j \in 1..Len(draw) :
                    LET trial == [picks EXCEPT ![idx] = draw[j]]
                        new_score == app_score(trial, target_kcal, macro_targets, den)
                    IN  /\ attempts' = AttemptsAfter(attempts, AppAccepts(new_score, best))
                        /\ IF AppAccepts(new_score, best)
                           THEN /\ picks' = trial
                                /\ best' = new_score
                                /\ accepted' = TRUE
                                /\ total_k' = TotalAfterSwap(total_k, trial)
                                /\ pc' = IF AppConverged(trial, target_kcal, macro_targets)
                                         THEN "finish" ELSE "search"
                           ELSE UNCHANGED <<picks, best, total_k, pc, accepted>>
                        /\ UNCHANGED <<fvars, sidevars, reqvars, callvars, seq, replaced, tightvars,
                                       storevars, raised>>

\* victim_idx = min(pool_idxs, key=lambda i: pd(picks[i])): the first minimum
VictimIdx(cur) ==
    LET snack_idxs == { i \in 1..Len(cur) : cur[i].meal_type = "snack" }
        pool_idxs == IF snack_idxs # {} THEN snack_idxs ELSE 1..Len(cur)
    IN  CHOOSE i \in pool_idxs :
            \A j \in pool_idxs :
                /\ ~PdGreater(cur[i], cur[j])
                /\ (j < i => PdGreater(cur[j], cur[i]))

\* next((m for m in bucket if pd(m) >= pd(victim) * 1.25), bucket[0])
HpCandidate(bucket, victim) ==
    LET dense == { i \in 1..Len(bucket) :
                     4 * bucket[i].P * Max(1, victim.K) >= 5 * victim.P * Max(1, bucket[i].K) }
    IN  IF dense # {} THEN bucket[CHOOSE i \in dense : \A j \in dense : i <= j]
        ELSE bucket[1]

\* if current_P < p_t - max(8, 0.06 * p_t)
ProteinLow(cur, mt) == 50 * SumP(cur) < 50 * mt.p - Max(400, 3 * mt.p)

\* the last-mile protein replacement and the return
AppLastMile ==
    /\ pc = "finish" /\ impl = "app"
    /\ IF ProteinLow(picks, macro_targets)
       THEN LET v == VictimIdx(picks)
                bucket == AppBucket(meals_db, picks[v].meal_type)
                swapped == [picks EXCEPT ![v] = HpCandidate(bucket, picks[v])]
            IN  /\ picks' = swapped
                /\ total_k' = TotalAfterSwap(total_k, swapped)
                /\ replaced' = (swapped # picks)
       ELSE UNCHANGED <<picks, total_k, replaced>>
    /\ pc' = "returned"
    /\ UNCHANGED <<fvars, sidevars, reqvars, callvars, seq, attempts, best, accepted, tightvars,
                   storevars, raised>>

(***************************************************************************)
(* app.py macro_rebalance_day (the tighten pass)                           *)
(***************************************************************************)
\* dict(MACRO_LEVERS[key]) with lever["tags"] = tags + ["adjustment"]
LeverCopy(key) ==
    [MACRO_LEVERS(key) EXCEPT !.tags = Append(@, "adjustment")]

\* the `close enough?` test
CloseEnough(cur, kt, mt) ==
    LET t == Totals(cur)
    IN  /\ 20 * Abs(mt.p - t.p) <= Max(160, mt.p)
        /\ 50 * Abs(mt.c - t.c) <= Max(500, 3 * mt.c)
        /\ 50 * Abs(mt.f - t.f) <= Max(250, 3 * mt.f)
        /\ IntPercent(kt, 97) <= t.k
        /\ t.k <= IntPercent(kt, 103)

\* errs.sort(key=lambda x: x[1], reverse=True); key = errs[0][0]
WorstMacro(cur, mt) ==
    LET t == Totals(cur)
        eP == Abs((mt.p - t.p) * 4)
        eC == Abs((mt.c - t.c) * 4)
        eF == Abs((mt.f - t.f) * 9)
    IN  IF eP >= eC /\ eP >= eF THEN "P"
        ELSE IF eC >= eF THEN "C"
        ELSE "F"

\* the drop loop without its test of the meal type
SnackToDropAnyType(cur, mt) ==
    LET t == Totals(cur)
        over_key == IF t.c > mt.c THEN "C" ELSE IF t.f > mt.f THEN "F" ELSE "K"
        Score(m) == IF over_key = "C" THEN m.C
                    ELSE IF over_key = "F" THEN m.F * 9 ELSE m.K
        snacks == { i \in 1..Len(cur) : ~HasTag(cur[i], "adjustment") }
        best_ix == { i \in snacks :
                       /\ Score(cur[i]) > -1
                       /\ \A j \in snacks :
                            /\ Score(cur[j]) <= Score(cur[i])
                            /\ (j < i => Score(cur[j]) < Score(cur[i])) }
    IN  IF best_ix = {} THEN 0 ELSE CHOOSE i \in best_ix : TRUE

\* the snack the drop loop settles on (0: none)
SnackToDrop(cur, mt) ==
    LET t == Totals(cur)
        over_key == IF t.c > mt.c THEN "C" ELSE IF t.f > mt.f THEN "F" ELSE "K"
        Score(m) == IF over_key = "C" THEN m.C
                    ELSE IF over_key = "F" THEN m.F * 9 ELSE m.K
        snacks == { i \in 1..Len(cur) :
                      cur[i].meal_type = "snack" /\ ~HasTag(cur[i], "adjustment") }
        best_ix == { i \in snacks :
                       /\ Score(cur[i]) > -1
                       /\ \A j \in snacks :
                            /\ Score(cur[j]) <= Score(cur[i])
                            /\ (j < i => Score(cur[j]) < Score(cur[i])) }
    IN  IF best_ix = {} THEN 0 ELSE CHOOSE i \in best_ix : TRUE

RemoveAt(xs, i) == SubSeq(xs, 1, i - 1) \o SubSeq(xs, i + 1, Len(xs))

\* the body of one iteration with the snack dropped and the lever popped
RebalanceStepDropBoth(cur, kt, mt) ==
    LET added == Append(cur, LeverCopy(WorstMacro(cur, mt)))
        ix == SnackToDrop(added, mt)
    IN  IF SumK(added) > IntPercent(kt, 103)
        THEN IF ix # 0 THEN RemoveAt(cur, ix)
             ELSE SubSeq(added, 1, Len(added) - 1)
        ELSE added

\* the body of one iteration after the `close enough?` test failed
RebalanceStep(cur, kt, mt) ==
    LET added == Append(cur, LeverCopy(WorstMacro(cur, mt)))
        ix == SnackToDrop(added, mt)
    IN  IF SumK(added) > IntPercent(kt, 103)
        THEN IF ix # 0 THEN RemoveAt(added, ix)
             ELSE SubSeq(added, 1, Len(added) - 1)
        ELSE added

\* picks = picks[:]  (generate always passes the macro targets)
TightenStart ==
    /\ pc = "returned" /\ caller \in {"direct", "web"}
    /\ impl = "app" /\ macro_targets.given
    /\ work' = SliceCopy(picks).items
    /\ work_alias' = SliceCopy(picks).alias
    /\ steps' = 0
    /\ pc' = "tighten"
    /\ UNCHANGED <<fvars, sidevars, reqvars, callvars, searchvars, lever_store, storevars, raised>>

\* one iteration of `for _ in range(max_adjustments)`
TightenStep ==
    /\ pc = "tighten" /\ steps < MAX_ADJUSTMENTS
    /\ IF CloseEnough(work, target_kcal, macro_targets)
       THEN /\ pc' = "tightened"
            /\ UNCHANGED <<work, steps, lever_store, picks>>
       ELSE /\ work' = RebalanceStep(work, target_kcal, macro_targets)
            /\ lever_store' = TagLever(lever_store, WorstMacro(work, macro_targets))
            /\ picks' = IF work_alias THEN work' ELSE picks
            /\ steps' = steps + 1
            /\ pc' = "tighten"
    /\ UNCHANGED <<fvars, sidevars, reqvars, callvars, seq, total_k, attempts, best,
                   accepted, replaced, work_alias, storevars, raised>>

TightenExhausted ==
    /\ pc = "tighten" /\ steps = MAX_ADJUSTMENTS
    /\ pc' = "tightened"
    /\ UNCHANGED <<fvars, sidevars, reqvars, callvars, searchvars, tightvars, storevars, raised>>

(***************************************************************************)
(* Callers: what becomes of the day                                        *)
(***************************************************************************)
\* day_totals.append(sum(m["K"] for m in picks))
StoredTotalMutant(day, total) == total

StoredTotal(day, total) == SumK(day)

\* app.py generate: plan.append(picks); day_totals.append(...); next day
WebStoreDay ==
    /\ pc = "tightened" /\ caller = "web"
    /\ plan' = Append(plan, work)
    /\ day_totals' = Append(day_totals, StoredTotal(work, total_k))
    /\ stored_from' = Append(stored_from, pc)
    /\ IF Len(plan') < days
       THEN pc' = "call" /\ grocery' = grocery
       ELSE pc' = "planned" /\ grocery' = aggregate_grocery_list(plan')
    /\ UNCHANGED <<fvars, sidevars, reqvars, callvars, searchvars, tightvars, days, raised>>

\* app.py build_plan_from_params: plan.append(picks); totals.append(total);
\* after the last day grocery = aggregate_grocery_list(plan)
OfflineStoreDay ==
    /\ pc = "returned" /\ caller = "offline"
    /\ plan' = Append(plan, picks)
    /\ day_totals' = Append(day_totals, total_k)
    /\ stored_from' = Append(stored_from, pc)
    /\ IF Len(plan') < days
       THEN pc' = "call" /\ grocery' = grocery
       ELSE pc' = "planned" /\ grocery' = aggregate_grocery_list(plan')
    /\ UNCHANGED <<fvars, sidevars, reqvars, callvars, searchvars, tightvars, days, raised>>

\* routes.py generate: plan.append(picks); totals.append(total); after the
\* last day grocery = aggregate_grocery(plan)
BlueprintStoreDay ==
    /\ pc = "returned" /\ caller = "blueprint"
    /\ plan' = Append(plan, picks)
    /\ day_totals' = Append(day_totals, total_k)
    /\ stored_from' = Append(stored_from, pc)
    /\ IF Len(plan') < days
       THEN pc' = "call" /\ grocery' = grocery
       ELSE pc' = "planned" /\ grocery' = aggregate_grocery(plan')
    /\ UNCHANGED <<fvars, sidevars, reqvars, callvars, searchvars, tightvars, days, raised>>

\* a direct call has its result
DirectDone ==
    /\ caller = "direct"
    /\ \/ pc = "tightened"
       \/ pc = "returned" /\ ~(impl = "app" /\ macro_targets.given)
    /\ pc' = "done"
    /\ UNCHANGED <<fvars, sidevars, reqvars, callvars, searchvars, tightvars, storevars, raised>>

Next ==
    \/ WebGenerate
    \/ PlannerStart
    \/ PlannerSeed
    \/ PlannerBeginSearch
    \/ PlannerAttempt
    \/ SearchExhausted
    \/ PlannerReturn
    \/ AppStart
    \/ AppSeed
    \/ AppBeginSearch
    \/ AppAttempt
    \/ AppLastMile
    \/ TightenStart
    \/ TightenStep
    \/ TightenExhausted
    \/ WebStoreDay
    \/ OfflineBuild
    \/ OfflineStoreDay
    \/ BlueprintGenerate
    \/ BlueprintStoreDay
    \/ DirectDone

Spec == Init /\ [][Next]_vars

(***************************************************************************)
(* The local search on a catalog with ties                                 *)
(***************************************************************************)
SearchInit == \E r \in SearchCalls : InitFor(r)

SearchNext ==
    \/ PlannerStart
    \/ PlannerSeed
    \/ PlannerBeginSearch
    \/ PlannerAttempt
    \/ SearchExhausted
    \/ PlannerReturn
    \/ AppStart
    \/ AppSeed
    \/ AppBeginSearch
    \/ AppAttempt
    \/ AppLastMile
    \/ TightenStart
    \/ TightenStep
    \/ TightenExhausted
    \/ DirectDone

SpecSearch == SearchInit /\ [][SearchNext]_vars

(***************************************************************************)
(* The local search on a catalog with converged selections                 *)
(***************************************************************************)
ConvergeInit == \E r \in ConvergeCalls : InitFor(r)

SpecConverge == ConvergeInit /\ [][SearchNext]_vars

(***************************************************************************)
(* The token -> plan maps under concurrent requests (app.run threaded=True) *)
(***************************************************************************)
\* number of generate requests in flight at once
MaxHandlers == 2
\* size of the token space; random.randint(10**9, 10**10-1) has 9 * 10^9
\* values, the model keeps the draw and scales the range down
MaxTokens == 2

Handlers == 1..MaxHandlers
Tokens == 1..MaxTokens
CacheTdees == {1867, 2400}

NoData == [owner |-> 0]

\* d[k] = v of a Python dict
DictSet(d, k, v) == [x \in DOMAIN d \cup {k} |-> IF x = k THEN v ELSE d[x]]

\* d.get(k)
DictGet(d, k) == IF k \in DOMAIN d THEN d[k] ELSE NoData

CacheOf(app) == IF app = "app" THEN _RESULTS ELSE _DATA_CACHE

CacheInit ==
    /\ catalog = <<>> /\ prefs = NoPrefs
    /\ resPlanner = [g \in BOOLEAN |-> NotRun]
    /\ resApp = [g \in BOOLEAN |-> NotRun]
    /\ resPool = [g \in BOOLEAN |-> NotRun]
    /\ PlanIdle
    /\ _RESULTS = <<>> /\ _DATA_CACHE = <<>>
    /\ \E app \in {"app", "blueprint"} :
          handler \in [Handlers -> [app : {app}, tdee : CacheTdees, pc : {"request"},
                                    data : {NoData}, token : {0}]]
    /\ fetched = NoFetch
    /\ MacrosIdle
    /\ ScoreIdle

\* generate up to the token: the request's plan is built; owner stands for
\* the identity of the plan list this request created
CacheBuild(h) ==
    /\ handler[h].pc = "request"
    /\ handler' = [handler EXCEPT ![h].pc = "built",
                      ![h].data = [owner |-> h, tdee |-> handler[h].tdee,
                                   target_kcal |-> RoundDiv(handler[h].tdee * 75, 100),
                                   days |-> 2]]
    /\ UNCHANGED <<fvars, pvars, macrovars, scorevars, _RESULTS, _DATA_CACHE, fetched>>

\* token = str(random.randint(...)); _RESULTS[token] = {...}
CacheStore(h) ==
    /\ handler[h].pc = "built"
    /\ \E token \in Tokens :
          /\ handler' = [handler EXCEPT ![h].pc = "stored", ![h].token = token]
          /\ IF handler[h].app = "app"
                THEN /\ _RESULTS' = DictSet(_RESULTS, token, handler[h].data)
                     /\ UNCHANGED _DATA_CACHE
                ELSE /\ _DATA_CACHE' = DictSet(_DATA_CACHE, token, handler[h].data)
                     /\ UNCHANGED _RESULTS
    /\ UNCHANGED <<fvars, pvars, macrovars, scorevars, fetched>>

\* the response carrying the token is rendered and returned
CacheRespond(h) ==
    /\ handler[h].pc = "stored"
    /\ handler' = [handler EXCEPT ![h].pc = "responded"]
    /\ UNCHANGED <<fvars, pvars, macrovars, scorevars, _RESULTS, _DATA_CACHE, fetched>>

\* pdf(token): data = _RESULTS.get(token); 410 when there is none
CachePdf(app, token) ==
    /\ \E h \in Handlers : handler[h].app = app
    /\ LET data == DictGet(CacheOf(app), token)
       IN  fetched' = IF data = NoData
                         THEN [status |-> 410, token |-> token]
                         ELSE [status |-> 200, token |-> token, data |-> data]
    /\ UNCHANGED <<fvars, pvars, macrovars, scorevars, _RESULTS, _DATA_CACHE, handler>>

CacheNext ==
    \/ \E h \in Handlers : CacheBuild(h)
    \/ \E h \in Handlers : CacheStore(h)
    \/ \E h \in Handlers : CacheRespond(h)
    \/ \E app \in {"app", "blueprint"}, token \in Tokens : CachePdf(app, token)

SpecCache == CacheInit /\ [][CacheNext]_vars

(***************************************************************************)
(* grams_from_kcal over a range of calorie targets                         *)
(***************************************************************************)
\* largest calorie target tried; the rounding errors of the three terms
\* repeat with period 240 (t/10, 3t/40 and t/30 with halves to even)
MaxKcal == 480

MacrosInit ==
    /\ catalog = <<>> /\ prefs = NoPrefs
    /\ resPlanner = [g \in BOOLEAN |-> NotRun]
    /\ resApp = [g \in BOOLEAN |-> NotRun]
    /\ resPool = [g \in BOOLEAN |-> NotRun]
    /\ PlanIdle
    /\ CacheIdle
    /\ ScoreIdle
    /\ kcal_in \in 1..MaxKcal
    /\ grams_out = NoGrams

\* macros.py: grams_from_kcal(target_kcal)
MacrosGrams ==
    /\ ~grams_out["macros"].given
    /\ grams_out' = [grams_out EXCEPT !["macros"] = grams_from_kcal(kcal_in)]
    /\ UNCHANGED <<fvars, pvars, cachevars, scorevars, kcal_in>>

\* app.py: grams_from_kcal(target_kcal)
AppGrams ==
    /\ ~grams_out["app"].given
    /\ grams_out' = [grams_out EXCEPT !["app"] = grams_from_kcal(kcal_in)]
    /\ UNCHANGED <<fvars, pvars, cachevars, scorevars, kcal_in>>

MacrosNext ==
    \/ MacrosGrams
    \/ AppGrams

SpecMacros == MacrosInit /\ [][MacrosNext]_vars

(***************************************************************************)
(* macro_rebalance_day called on a given day                               *)
(***************************************************************************)
\* longest day handed to macro_rebalance_day
MaxTightenLen == 4

\* the days: every selection of 1..MaxTightenLen meals of CatalogMixed, in
\* catalog order
TightenDays ==
    UNION { { [i \in 1..n |-> CatalogMixed[ix[i]]] :
                ix \in { f \in [1..n -> 1..Len(CatalogMixed)] :
                           \A i \in 1..(n - 1) : f[i] <= f[i + 1] } } :
            n \in 1..MaxTightenLen }

TightenTargets == {1400, 1800}

\* the state at the call macro_rebalance_day(picks, kcal_target, macro_targets)
TightenInit ==
    /\ catalog = CatalogMixed /\ prefs = NoPrefs
    /\ resPlanner = [g \in BOOLEAN |-> NotRun]
    /\ resApp = [g \in BOOLEAN |-> NotRun]
    /\ resPool = [g \in BOOLEAN |-> NotRun]
    /\ caller = "direct" /\ impl = "app" /\ form = NoForm
    /\ pc = "returned"
    /\ target_kcal \in TightenTargets
    /\ macro_targets = grams_from_kcal(target_kcal)
    /\ picks \in TightenDays
    /\ meals_per_day = Len(picks)
    /\ meals_db = CatalogMixed
    /\ seq = <<>> /\ total_k = SumK(picks) /\ attempts = 0 /\ best = 0
    /\ accepted = FALSE /\ replaced = FALSE
    /\ work = <<>> /\ steps = 0 /\ work_alias = FALSE /\ lever_store = LeverTable
    /\ days = 1 /\ plan = <<>> /\ day_totals = <<>>
    /\ grocery = <<>> /\ stored_from = <<>>
    /\ raised = FALSE
    /\ SideIdle

TightenNext ==
    \/ TightenStart
    \/ TightenStep
    \/ TightenExhausted
    \/ DirectDone

SpecTighten == TightenInit /\ [][TightenNext]_vars

(***************************************************************************)
(* The scoring functions on selections around the targets                  *)
(***************************************************************************)
\* largest distance, in grams, of a macro total of the selection from its target
MaxOffset == 3

ScoreTargets == {1400, 1800}

Offsets == { d \in (0 - MaxOffset)..MaxOffset : d # 0 }

\* a selection of one meal with the given totals
DayOf(k, p, c, f) ==
    <<[name |-> <<"D", "a", "y">>, meal_type |-> "dinner", K |-> k, P |-> p, C |-> c, F |-> f,
       tags |-> <<>>, ingredients |-> <<>>]>>

\* the state at a call of the scoring function: calories on target, every
\* macro off its target
ScoreInit ==
    /\ catalog = <<>> /\ prefs = NoPrefs
    /\ resPlanner = [g \in BOOLEAN |-> NotRun]
    /\ resApp = [g \in BOOLEAN |-> NotRun]
    /\ resPool = [g \in BOOLEAN |-> NotRun]
    /\ PlanIdle
    /\ CacheIdle
    /\ MacrosIdle
    /\ \E t \in ScoreTargets : \E dp \in Offsets, dc \in Offsets, df \in Offsets :
          LET mt == grams_from_kcal(t)
          IN  score_in = [kcal_target |-> t, macro_targets |-> mt,
                          picks |-> DayOf(t, mt.p + dp, mt.c + dc, mt.f + df)]
    /\ score_out = [i \in {"planner", "app"} |-> NoPenalty]

\* one unit further from the target, on the side the total is on
Further(x, target) == IF x >= target THEN x + 1 ELSE x - 1

\* the selection with one more kcal, or one more gram of one macro, of
\* deviation in its first meal
FurtherK(sel, kt) == [sel EXCEPT ![1].K = Further(SumK(sel), kt) - SumK(sel) + @]
FurtherP(sel, mt) == [sel EXCEPT ![1].P = Further(SumP(sel), mt.p) - SumP(sel) + @]
FurtherC(sel, mt) == [sel EXCEPT ![1].C = Further(SumC(sel), mt.c) - SumC(sel) + @]
FurtherF(sel, mt) == [sel EXCEPT ![1].F = Further(SumF(sel), mt.f) - SumF(sel) + @]

\* planner.py: _score of the selection and of its four neighbours (times 2)
PlannerScoreDeviations ==
    /\ ~score_out["planner"].done
    /\ LET sel == score_in.picks
           kt == score_in.kcal_target
           mt == score_in.macro_targets
           here == planner_score2(sel, kt, mt)
       IN  score_out' = [score_out EXCEPT !["planner"] =
               [done |-> TRUE,
                k |-> planner_score2(FurtherK(sel, kt), kt, mt) - here,
                p |-> planner_score2(FurtherP(sel, mt), kt, mt) - here,
                c |-> planner_score2(FurtherC(sel, mt), kt, mt) - here,
                f |-> planner_score2(FurtherF(sel, mt), kt, mt) - here]]
    /\ UNCHANGED <<fvars, pvars, cachevars, macrovars, score_in>>

\* app.py: _score_plan of the selection and of its four neighbours (times
\* the common denominator of the five scores)
AppScoreDeviations ==
    /\ ~score_out["app"].done
    /\ LET sel == score_in.picks
           kt == score_in.kcal_target
           mt == score_in.macro_targets
           den == ScoreDen(sel \o FurtherK(sel, kt) \o FurtherP(sel, mt)
                             \o FurtherC(sel, mt) \o FurtherF(sel, mt),
                           Len(sel), kt, mt)
           here == app_score(sel, kt, mt, den)
       IN  score_out' = [score_out EXCEPT !["app"] =
               [done |-> TRUE,
                k |-> app_score(FurtherK(sel, kt), kt, mt, den) - here,
                p |-> app_score(FurtherP(sel, mt), kt, mt, den) - here,
                c |-> app_score(FurtherC(sel, mt), kt, mt, den) - here,
                f |-> app_score(FurtherF(sel, mt), kt, mt, den) - here]]
    /\ UNCHANGED <<fvars, pvars, cachevars, macrovars, score_in>>

ScoreNext ==
    \/ PlannerScoreDeviations
    \/ AppScoreDeviations

SpecScore == ScoreInit /\ [][ScoreNext]_vars

(***************************************************************************)
(* Properties of planning                                                  *)
(***************************************************************************)
\* pick_day_plan has returned its (picks, total_k)
Returned == pc \in {"returned", "tighten", "tightened", "planned", "done"}

AllTypesPresent(db) == \A i \in 1..Len(MEAL_TYPES) : OfType(db, MEAL_TYPES[i]) # <<>>

CountOf(s, t) == Cardinality({ i \in 1..Len(s) : s[i] = t })

SlotTable(n) ==
    IF n = 1 THEN <<"dinner">>
    ELSE IF n = 2 THEN <<"lunch", "dinner">>
    ELSE <<"breakfast", "lunch", "dinner">> \o [i \in 1..(n - 3) |-> "snack"]

IsAdjustmentItem(m) ==
    \E key \in {"P", "C", "F"} :
        /\ m.name = MACRO_LEVERS(key).name
        /\ m.meal_type = "snack"
        /\ <<m.K, m.P, m.C, m.F>> = <<MACRO_LEVERS(key).K, MACRO_LEVERS(key).P,
                                      MACRO_LEVERS(key).C, MACRO_LEVERS(key).F>>
        /\ HasTag(m, "adjustment")

Budget == IF impl = "planner" THEN PLANNER_ATTEMPTS ELSE APP_ATTEMPTS

\* C3: with a positive calorie target, a non-empty candidate list and
\* meals_per_day >= 1, no step of pick_day_plan or of the tighten pass
\* raises, whatever is drawn; a slot whose type no candidate has is filled
\* from the whole candidate list.
C3_NoException ==
    /\ (target_kcal > 0 /\ meals_db # <<>> /\ meals_per_day >= 1) => ~raised
    /\ (Returned /\ meals_db # <<>>) =>
          /\ Len(picks) = Len(seq)
          /\ \A i \in 1..Len(seq) :
                OfType(meals_db, seq[i]) = <<>> => picks[i] \in Range(meals_db)

\* a finished call, tightened, where a slot's type was absent from the
\* candidates and the slot holds a meal of another type
C3_Witness ==
    /\ pc = "done" /\ ~raised /\ steps > 0
    /\ \E i \in 1..Len(seq) :
          /\ OfType(meals_db, seq[i]) = <<>>
          /\ picks[i].meal_type # seq[i]

\* C4 as stated: for every meals_per_day >= 1 the returned selection has
\* exactly meals_per_day items, and its slots are those of the table
\* (1: dinner; 2: lunch, dinner; 3: breakfast, lunch, dinner; n >= 4: these
\* three and n - 3 snack slots).
C4_SlotTable ==
    (Returned /\ meals_db # <<>> /\ meals_per_day >= 1) =>
        /\ Len(picks) = meals_per_day
        /\ Len(seq) = meals_per_day
        /\ \A t \in Range(MEAL_TYPES) :
              CountOf(seq, t) = CountOf(SlotTable(meals_per_day), t)

\* C5: when the candidates hold a meal of every meal type, every pick has
\* the meal type of its slot, during the seed, after every mutation and the
\* protein replacement, and at return; with meals_per_day = 3 the returned
\* day holds exactly one breakfast, one lunch and one dinner.
C5_SlotTypesKept ==
    AllTypesPresent(meals_db) =>
        /\ Len(picks) <= Len(seq)
        /\ \A i \in 1..Len(picks) : picks[i].meal_type = seq[i]
        /\ (Returned /\ meals_per_day = 3) =>
              /\ Len(picks) = 3
              /\ \A t \in {"breakfast", "lunch", "dinner"} :
                    Cardinality({ i \in 1..Len(picks) : picks[i].meal_type = t }) = 1

\* a returned day of three meals, from candidates of every type, reached
\* through an accepted mutation
C5_Witness ==
    /\ Returned /\ AllTypesPresent(meals_db) /\ meals_per_day = 3
    /\ accepted
    /\ Len(picks) = 3

\* C6: every pick is one of the candidates; every item of a tightened day is
\* a candidate or one of the fixed adjustment items; when some meal of the
\* catalog satisfies the request, no item of a stored day is a meal the
\* filter rejected.
C6_ItemsAreCandidates ==
    /\ \A i \in 1..Len(picks) :
          /\ picks[i] \in Range(meals_db)
          /\ QualifyingMeals(prefs) # <<>> => Qualifies(picks[i], prefs)
    /\ \A i \in 1..Len(work) : work[i] \in Range(meals_db) \/ IsAdjustmentItem(work[i])
    /\ \A d \in 1..Len(plan) : \A i \in 1..Len(plan[d]) :
          \/ IsAdjustmentItem(plan[d][i])
          \/ /\ plan[d][i] \in Range(meals_db)
             /\ plan[d][i] \in Range(catalog)
             /\ QualifyingMeals(prefs) # <<>> => Qualifies(plan[d][i], prefs)

\* a stored plan of a request that rejects some meals of the catalog, with a
\* candidate and an adjustment item in its first day
C6_Witness ==
    /\ pc = "planned" /\ Len(plan) >= 1
    /\ QualifyingMeals(prefs) # <<>>
    /\ Len(QualifyingMeals(prefs)) < Len(catalog)
    /\ \E i \in 1..Len(plan[1]) : IsAdjustmentItem(plan[1][i])
    /\ \E i \in 1..Len(plan[1]) : plan[1][i] \in Range(meals_db)

\* C7: the total pick_day_plan returns is the sum of the calories of the
\* picks it returns, on every path (app.py keeps it equal to that sum from
\* the seed on); every stored day total is the sum of the calories of the
\* stored (tightened) day.
C7_TotalsAreSums ==
    /\ Returned => total_k = SumK(picks)
    /\ (impl = "app" /\ pc \in {"seed", "search", "finish"}) => total_k = SumK(picks)
    /\ Len(day_totals) = Len(plan)
    /\ \A d \in 1..Len(plan) : day_totals[d] = SumK(plan[d])

\* a stored day whose picks went through an accepted mutation and the
\* protein replacement, and which the tighten pass changed
C7_Witness ==
    /\ pc = "planned" /\ Len(plan) >= 1
    /\ accepted /\ replaced
    /\ work # picks
    /\ day_totals[Len(plan)] # total_k

\* C8: the attempt counter stays within the budget (150 in planner.py, 350
\* in app.py) and every iteration of the search lowers it by one, accepted
\* or not; the tighten pass makes at most 4 iterations; every step of a
\* request lowers a natural number, so every call ends.
C8_Bounded ==
    /\ attempts \in 0..Budget
    /\ steps \in 0..MAX_ADJUSTMENTS

\* what is left to do within the day: a natural number every step lowers
DayRank ==
    CASE pc = "call" -> 10 + Budget + Max(meals_per_day, 4)
      [] pc = "seed" -> 9 + Budget + (Len(seq) - Len(picks))
      [] pc = "search" -> 8 + attempts
      [] pc = "finish" -> 7
      [] pc = "returned" -> 6
      [] pc = "tighten" -> 1 + (MAX_ADJUSTMENTS - steps)
      [] OTHER -> 0

DayCost == 11 + Budget + Max(meals_per_day, 4)

\* what is left of the request: the days not yet stored, and the day at hand
Rank ==
    IF pc = "request" THEN 8 * (11 + APP_ATTEMPTS + 5)
    ELSE IF pc \in {"done", "planned", "raised"} THEN 0
    ELSE (days - Len(plan)) * DayCost + DayRank

C8_Decreases ==
    [][ /\ (pc = "search" /\ attempts > 0) => attempts' = attempts - 1
        /\ (pc = "tighten" /\ pc' = "tighten") => steps' = steps + 1
        /\ Rank' < Rank /\ Rank' >= 0 ]_vars

C8_Terminates == []C8_Bounded /\ C8_Decreases

\* a finished call whose search used its whole budget and whose tighten pass
\* made all its iterations
C8_Witness ==
    /\ pc \in {"done", "planned"}
    /\ picks # <<>>
    /\ attempts = 0 /\ steps = MAX_ADJUSTMENTS

\* C9: when the candidates hold exactly one meal of each slot type in use,
\* the returned picks are those meals, one per slot, and the total is their
\* sum; for a 300 kcal breakfast, a 500 kcal lunch and a 600 kcal dinner,
\* three meals a day and a 1400 kcal target without macro targets, 1400.
OnePerSlot ==
    /\ seq # <<>>
    /\ \A i \in 1..Len(seq) : Len(OfType(meals_db, seq[i])) = 1

C9_OnePerSlot ==
    /\ (Returned /\ OnePerSlot) =>
          /\ Len(picks) = Len(seq)
          /\ \A i \in 1..Len(seq) : picks[i] = OfType(meals_db, seq[i])[1]
          /\ total_k = SumK([i \in 1..Len(seq) |-> OfType(meals_db, seq[i])[1]])
    /\ (Returned /\ meals_db = CatalogScenario /\ meals_per_day = 3
          /\ target_kcal = 1400 /\ ~macro_targets.given) =>
          /\ Range(picks) = {Oats, Wrap, Beef}
          /\ total_k = 1400

\* the scenario's call has returned after spending attempts
C9_Witness ==
    /\ pc = "done" /\ meals_db = CatalogScenario /\ meals_per_day = 3
    /\ target_kcal = 1400 /\ ~macro_targets.given
    /\ attempts < Budget
    /\ total_k = 1400

\* C11 as stated: on every path that builds a plan, each day is passed
\* through the tighten pass before it is added to the plan, and the grocery
\* list is aggregated only after the last day is stored.
C11_TightenBeforeStore ==
    /\ Len(stored_from) = Len(plan)
    /\ \A d \in 1..Len(plan) : stored_from[d] = "tightened"
    /\ grocery # <<>> => Len(plan) = days

\* C12: a finished plan holds one day per requested day, the count read
\* from the request being bounded to 1..7 (below 1 gives 1, above 7 gives
\* 7; routes.py reads no day count and always builds 2 days), and the day
\* totals have the same length.
C12_OneDayPerRequestedDay ==
    /\ Len(day_totals) = Len(plan)
    /\ Len(plan) <= days
    /\ pc = "planned" => Len(plan) = days
    /\ (caller # "direct" /\ pc # "request") =>
          /\ days \in 1..7
          /\ caller = "blueprint" => days = 2
          /\ caller \in {"web", "offline"} =>
                /\ form.days \in 1..7 => days = form.days
                /\ form.days < 1 => days = 1
                /\ form.days > 7 => days = 7

\* a finished plan of a request for more than seven days
C12_Witness ==
    /\ pc = "planned" /\ form.days > 7
    /\ Len(plan) = 7 /\ Len(day_totals) = 7

\* C13 as stated: once a generate has handed out its token, the plan it built
\* is in the token -> plan map under that token, whatever the other requests do.
C13_StoredUnderToken ==
    \A h \in Handlers :
        handler[h].pc = "responded" =>
            DictGet(CacheOf(handler[h].app), handler[h].token) = handler[h].data

\* C14: filter, planDay, tighten and aggregate only read: no step changes the
\* catalog (the list, its meal records, their tags) or the adjustment-item
\* table, and while tighten runs the caller's selection list stays as it was
\* (tighten works on its copy and tags a copy of each adjustment item).
C14_OnlyReads ==
    [][ /\ catalog' = catalog
        /\ lever_store' = lever_store
        /\ lever_store = LeverTable
        /\ (pc = "tighten" \/ pc' = "tighten") => picks' = picks ]_vars

\* a web plan is finished (filtered, planned, tightened, aggregated) and one
\* of its days carries an adjustment item that tighten tagged
C14_Witness ==
    /\ pc = "planned" /\ caller = "web" /\ grocery # <<>>
    /\ \E d \in 1..Len(plan) : \E i \in 1..Len(plan[d]) :
          /\ plan[d][i].tags = Append(MACRO_LEVERS("P").tags, "adjustment")
          /\ Len(plan[d]) > meals_per_day
    /\ lever_store = LeverTable /\ catalog # <<>>

\* C15: for every calorie target, the gram targets of the default 40/30/30
\* split, each rounded on its own, give back the target within 10 kcal:
\* |4*P + 4*C + 9*F - target_kcal| <= 10.
C15_GramsWithinTen ==
    \A i \in DOMAIN grams_out :
        grams_out[i].given =>
            Abs(4 * grams_out[i].p + 4 * grams_out[i].c + 9 * grams_out[i].f - kcal_in) <= 10

\* both implementations have run on a target where the rounding error is 7 kcal
C15_Witness ==
    /\ grams_out["macros"].given /\ grams_out["app"].given
    /\ grams_out["macros"] = grams_out["app"]
    /\ Abs(4 * grams_out["app"].p + 4 * grams_out["app"].c + 9 * grams_out["app"].f - kcal_in) = 7

\* the positions <<day, meal, item>> of a plan that hold the string s
OccurrencesOf(plan_, s) ==
    { pos \in UNION { UNION { { <<d, i, j>> : j \in 1..Len(plan_[d][i].ingredients) } :
                                i \in 1..Len(plan_[d]) } : d \in 1..Len(plan_) } :
        plan_[pos[1]][pos[2]].ingredients[pos[3]] = s }

IngredientStrings(plan_) ==
    UNION { UNION { Range(plan_[d][i].ingredients) : i \in 1..Len(plan_[d]) } :
              d \in 1..Len(plan_) }

\* the aggregator of the caller's code base
AggregateOf(plan_) ==
    IF caller = "blueprint" THEN aggregate_grocery(plan_) ELSE aggregate_grocery_list(plan_)

CountIn(counts, s) == IF s \in DOMAIN counts THEN counts[s] ELSE 0

\* C16: the grocery list of a finished plan has exactly the ingredient strings
\* that occur in the plan as its keys, each with the number of its occurrences
\* (strings compared as they are), and for every split of the plan into a
\* first and a second part it is the key-wise sum of the two parts' lists.
C16_ExactTally ==
    pc = "planned" =>
        /\ DOMAIN grocery = IngredientStrings(plan)
        /\ \A s \in DOMAIN grocery : grocery[s] = Cardinality(OccurrencesOf(plan, s))
        /\ \A k \in 0..Len(plan) :
              LET first == AggregateOf(SubSeq(plan, 1, k))
                  second == AggregateOf(SubSeq(plan, k + 1, Len(plan)))
              IN  /\ DOMAIN grocery = DOMAIN first \cup DOMAIN second
                  /\ \A s \in DOMAIN grocery :
                        grocery[s] = CountIn(first, s) + CountIn(second, s)

\* a finished two-day plan in which "Egg" and "egg" are separate keys and
\* some string was tallied more than once, part of it on each day
C16_Witness ==
    /\ pc = "planned" /\ Len(plan) = 2
    /\ <<"E", "g", "g">> \in DOMAIN grocery
    /\ <<"e", "g", "g">> \in DOMAIN grocery
    /\ \E s \in DOMAIN grocery :
          /\ grocery[s] >= 2
          /\ CountIn(AggregateOf(<<plan[1]>>), s) >= 1
          /\ CountIn(AggregateOf(<<plan[2]>>), s) >= 1

\* macro_rebalance_day has returned: work is its result, picks its input
Tightened == pc \in {"tightened", "done"} /\ impl = "app" /\ macro_targets.given

\* the items of the result that the pass appended
AppendedItems(day) == { day[i] : i \in { j \in 1..Len(day) : \E key \in {"P", "C", "F"} : day[j] = LeverCopy(key) } }

ProteinDominant(m) == 4 * m.P > 4 * m.C /\ 4 * m.P > 9 * m.F

\* protein is short of its target and is the largest miss of the day
ProteinIsTheDeficit(day, mt) ==
    LET t == Totals(day)
    IN  /\ mt.p - t.p > 0
        /\ 4 * (mt.p - t.p) >= Abs(4 * (mt.c - t.c))
        /\ 4 * (mt.p - t.p) >= Abs(9 * (mt.f - t.f))

\* C17 as stated: a 1300 kcal day tightened towards 1400 kcal whose deficit is
\* in protein comes out at 1330 kcal or more, and every item the pass appended
\* is protein-dominant.
C17_ProteinScenario ==
    (/\ Tightened
     /\ target_kcal = 1400 /\ SumK(picks) = 1300
     /\ ProteinIsTheDeficit(picks, macro_targets)) =>
        /\ SumK(work) >= 1330
        /\ \A m \in AppendedItems(work) : ProteinDominant(m)

\* C18 as stated: the calorie deviation of the result of the tighten pass is
\* never larger than that of its input.
C18_DeviationNotWorse ==
    Tightened => Abs(SumK(work) - target_kcal) <= Abs(SumK(picks) - target_kcal)

\* C19 as stated: after tightening, the length of the day differs from the
\* length of the input by at most 2.
C19_LengthWithinTwo ==
    Tightened => Abs(Len(work) - Len(picks)) <= 2

\* C19 amended: the pass never shortens the day and lengthens it by at most
\* max_adjustments = 4 items, one per iteration; this holds after every
\* iteration, not only at the end.
C19_LengthWithinSteps ==
    (pc \in {"tighten", "tightened"} \/ Tightened) =>
        /\ Len(work) >= Len(picks)
        /\ Len(work) <= Len(picks) + steps
        /\ steps <= MAX_ADJUSTMENTS

\* a day came out four items longer than it went in
C19_Witness ==
    /\ Tightened /\ steps = MAX_ADJUSTMENTS
    /\ Len(work) = Len(picks) + 4
    /\ Len(picks) >= 3

\* the score the search compares, of a selection, in the running call
SearchScore(sel) ==
    IF impl = "planner" THEN planner_best2(sel, target_kcal, macro_targets)
    ELSE app_score(sel, target_kcal, macro_targets,
                   ScoreDen(meals_db, Len(seq), target_kcal, macro_targets))

\* cand = random.choice(...): the meals slot i can be given
MutationCandidates(i) ==
    IF impl = "planner" THEN PlannerBucket(meals_db, picks[i].meal_type)
    ELSE LET bucket == AppBucket(meals_db, picks[i].meal_type)
         IN  SubSeq(bucket, 1, TopSpan(Len(bucket)))

\* the selections one mutation of the current selection can propose
Mutations ==
    UNION { { [picks EXCEPT ![i] = m] : m \in Range(MutationCandidates(i)) } :
            i \in 1..Len(picks) }

\* the search keeps a running best score (planner.py without macro targets
\* compares with the current selection's calorie gap instead)
KeepsBest == impl = "app" \/ macro_targets.given

\* C20: every attempt of the local search either takes a mutation whose score
\* is strictly lower than the current best or keeps the selection because the
\* mutation's score is not lower (an equal score included); the score of the
\* current selection never goes up, and the best score kept by the search is
\* the score of the current selection.
C20_StrictImprovement ==
    [][ (pc = "search" /\ attempts > 0 /\ picks # <<>> /\ pc' # "raised") =>
          /\ \E new \in Mutations :
                \/ SearchScore(new) < SearchScore(picks) /\ picks' = new
                \/ SearchScore(new) >= SearchScore(picks) /\ picks' = picks
          /\ picks' # picks => SearchScore(picks') < SearchScore(picks)
          /\ SearchScore(picks') <= SearchScore(picks)
          /\ KeepsBest => /\ best = SearchScore(picks)
                          /\ best' = SearchScore(picks')
                          /\ best' <= best ]_vars

\* the search has taken a mutation, has attempts left, and a mutation to a
\* different selection of exactly the current score is on offer
C20_Witness ==
    /\ pc = "search" /\ accepted /\ attempts > 0
    /\ \E new \in Mutations : new # picks /\ SearchScore(new) = SearchScore(picks)

\* C21 as stated: from the seed to the return the score of the selection never
\* goes up, so the selection pick_day_plan returns scores no higher than the
\* seed and than every selection that was current during the search, also
\* when the attempts ran out.
C21_ReturnsBestFound ==
    [][ (pc \in {"search", "finish"} /\ picks # <<>> /\ pc' # "raised") =>
            SearchScore(picks') <= SearchScore(picks) ]_vars

\* the convergence test of the running call, on the current selection
SearchConverged ==
    IF impl = "planner" THEN PlannerConverged(picks, best, target_kcal, macro_targets)
    ELSE AppConverged(picks, target_kcal, macro_targets)

\* C22 as stated: once an iteration of the search has run, the search goes on
\* to a further attempt only while the current selection is outside the
\* convergence condition (calories within 5% of the target, and score below
\* 20 in planner.py, each macro within its tolerance in app.py); a search that
\* stopped with attempts left stopped on a converged selection, and that
\* selection is still converged when it is returned.
C22_StopsOnceConverged ==
    /\ (pc = "search" /\ attempts < Budget /\ picks # <<>>) => ~SearchConverged
    /\ (pc \in {"finish", "returned"} /\ picks # <<>> /\ attempts > 0) => SearchConverged

\* lower <= k <= upper, the calorie band of macro_rebalance_day
InBand(day, kt) == IntPercent(kt, 97) <= SumK(day) /\ SumK(day) <= IntPercent(kt, 103)

\* C23 as stated: an iteration of the tighten pass that starts on a day whose
\* calories are within the band changes nothing (the pass has stopped, or goes
\* on without effect), and a day that is within the band on entry is returned
\* unchanged, with nothing appended or removed.
C23_InBandStops ==
    /\ [](Tightened /\ InBand(picks, target_kcal) => work = picks)
    /\ [][ (pc = "tighten" /\ InBand(work, target_kcal)) => work' = work ]_vars

\* dp*4, dc*4, df*9 with dp, dc, df = target minus current: the deficits in kcal
Deficit(day, mt, key) ==
    CASE key = "P" -> (mt.p - SumP(day)) * 4
      [] key = "C" -> (mt.c - SumC(day)) * 4
      [] key = "F" -> (mt.f - SumF(day)) * 9

\* the macros of the largest deficit (more than one on a tie)
LargestDeficits(day, mt) ==
    { key \in {"P", "C", "F"} :
        \A other \in {"P", "C", "F"} : Deficit(day, mt, key) >= Deficit(day, mt, other) }

\* an iteration of the pass has changed the day: its last item is then the
\* adjustment item the iteration appended
AppendedBy(before, after, key) ==
    /\ after # before
    /\ after # <<>>
    /\ after[Len(after)] = LeverCopy(key)

\* C24 as stated: when an iteration of the tighten pass starts under the
\* calorie target and appends an adjustment item, the item is that of a macro
\* with the largest kcal-equivalent deficit (target minus current; times 4 for
\* protein and carbs, times 9 for fat), and it is not the item of a macro at or
\* above its target while another macro is in deficit.
C24_LargestDeficitLever ==
    [][ (pc = "tighten" /\ SumK(work) < target_kcal) =>
          \A key \in {"P", "C", "F"} :
              AppendedBy(work, work', key) =>
                  /\ key \in LargestDeficits(work, macro_targets)
                  /\ ~ /\ Deficit(work, macro_targets, key) <= 0
                       /\ \E other \in {"P", "C", "F"} :
                             Deficit(work, macro_targets, other) > 0 ]_vars

\* m["meal_type"] == "snack" and "adjustment" not in m.get("tags", [])
OrdinarySnack(m) == m.meal_type = "snack" /\ ~HasTag(m, "adjustment")

\* C25 as stated: when an iteration of the tighten pass removes an item the day
\* held (the day, with the appended item, being over the band), the item is an
\* ordinary snack of the highest calories among the day's ordinary snacks; and
\* the appended adjustment item is taken back only when the day holds no
\* ordinary snack.
C25_RemovesHighestCalorieSnack ==
    [][ (pc = "tighten" /\ steps' = steps + 1) =>
          /\ (Len(work') = Len(work) /\ work' # work) =>
                \E i \in 1..Len(work) :
                    /\ RemoveAt(work, i) = SubSeq(work', 1, Len(work') - 1)
                    /\ OrdinarySnack(work[i])
                    /\ \A j \in 1..Len(work) :
                          OrdinarySnack(work[j]) => work[j].K <= work[i].K
          /\ work' = work => \A j \in 1..Len(work) : ~OrdinarySnack(work[j]) ]_vars

\* the adjustment items the filter's rule admits under the request's preferences
CompatibleLevers(p) == { key \in {"P", "C", "F"} : Qualifies(LeverCopy(key), p) }

\* C26 as stated: every adjustment item in the day the tighten pass works on
\* satisfies the request's preferences and exclusions (the filter's rule)
\* whenever some adjustment item does; an item that does not is there only
\* when none does.
C26_LeversCompatible ==
    \A i \in 1..Len(work) :
        IsAdjustmentItem(work[i]) =>
            \/ Qualifies(work[i], prefs)
            \/ CompatibleLevers(prefs) = {}

\* C27 as stated: in both scoring functions one more gram of protein
\* deviation raises the score at least as much as one more gram of
\* carbohydrate deviation, that at least as much as one more gram of fat
\* deviation, and that at least as much as one more kcal of calorie deviation.
C27_PenaltyOrder ==
    \A i \in DOMAIN score_out :
        score_out[i].done =>
            /\ score_out[i].p >= score_out[i].c
            /\ score_out[i].c >= score_out[i].f
            /\ score_out[i].f >= score_out[i].k

\* the breakfast, lunch and dinner items of a day, in order
NonSnacks(day) == SelectSeq(day, LAMBDA m : m.meal_type # "snack")

\* C28: the tighten pass never removes or replaces a breakfast, lunch or
\* dinner item: during the pass and at its end the non-snack items of its day
\* are those of its input, in the same order; an iteration either leaves the
\* day as it is (it stopped, or took back the item it appended), or appends an
\* adjustment item, or appends one and removes one ordinary snack, so the
\* length changes by 0 or +1.
C28_MealsKept ==
    /\ []((pc \in {"tighten", "tightened"} \/ Tightened) => NonSnacks(work) = NonSnacks(picks))
    /\ [][ pc = "tighten" =>
             \/ work' = work
             \/ \E key \in {"P", "C", "F"} :
                   \/ work' = Append(work, LeverCopy(key))
                   \/ \E i \in 1..Len(work) :
                         /\ OrdinarySnack(work[i])
                         /\ work' = Append(RemoveAt(work, i), LeverCopy(key)) ]_vars

\* a day of two or more meals and some ordinary snacks has been tightened in
\* four iterations; it lost a snack, kept its meals and holds an adjustment item
C28_Witness ==
    /\ Tightened /\ steps = MAX_ADJUSTMENTS
    /\ Len(NonSnacks(picks)) >= 2
    /\ Len(SelectSeq(work, OrdinarySnack)) < Len(SelectSeq(picks, OrdinarySnack))
    /\ \E i \in 1..Len(work) : IsAdjustmentItem(work[i])
    /\ NonSnacks(work) = NonSnacks(picks)

====
